---- MODULE Spec2Model ----
(***************************************************************************)
(* SkillGate scan pipeline: policy engine, enforcer, ingestors, scanner    *)
(* orchestrator, secret scanner / masker / JSON reporter and policy        *)
(* loader, as state machines.  Each subsystem has its own specification    *)
(* (SpecEngine, SpecPipeline, SpecOrchestrator, SpecRerun, SpecLoader and  *)
(* FairSpecLoader, SpecReport); the variables of the other subsystems stay *)
(* at their idle value.                                                    *)
(***************************************************************************)
EXTENDS Integers, Sequences, FiniteSets, TLC

VARIABLES
    \* ---- policy engine / enforcer (engine.ts, enforcer/index.ts)
    policy,              \* PolicyEngine.policy (validated Policy)
    findings,            \* the findings of the input list consumed so far
    score,               \* evaluate(): let score (running, before the clamp)
    triggeredMap,        \* evaluate(): triggeredMap, in insertion order
    criticalBlockRules,  \* evaluate(): criticalBlockRules
    suppressedFindings,  \* evaluate(): suppressedFindings
    result,              \* the EvaluationResult evaluate() returned
    decision,            \* getDecision(result)
    epc,                 \* position: "loop" | "evaluated" | "decided" | "idle"
    \* ---- executeScan and the ingestors (scan.ts, ingestor/*.ts)
    ppc,                 \* executeScan's position
    ipc,                 \* doIngest's position
    sourceKind,          \* detectSourceType(source): "local" | "git" | "archive"
    hasRef,              \* IngestorSource.ref is set
    optCleanup,          \* IngestorOptions.cleanup
    scratchDir,          \* the clone / extract directory: "none" | "exists" | "removed"
    scanFindings,        \* results.flatMap(r => r.findings)
    scanned,             \* orchestrator.scan has resolved
    loadedPolicy,        \* the policy executeScan loaded
    enforcement,         \* enforcer.enforce(findings): [decision, exitCode, score,
                         \* suppressed, criticalBlockRules]
    artifact,            \* where the report went: "none" | "file" | "stdout"
    exitCode,            \* what executeScan returned (-1: not yet)
    scanReport,          \* the ScanReport the artifact holds
    failure              \* why executeScan returned ERROR: "none" | "ingest" |
                         \* "policy" | "write"

engineVars == <<policy, findings, score, triggeredMap, criticalBlockRules,
                suppressedFindings, result, decision, epc>>

pipeVars == <<ppc, ipc, sourceKind, hasRef, optCleanup, scratchDir, scanFindings,
              scanned, loadedPolicy, enforcement, artifact, exitCode, scanReport,
              failure>>

\* policy/loader.ts
VARIABLES
    lfs,            \* the policy files on disk: path -> file
    lallowExtends,  \* PolicyLoader.allowExtends
    lcache,         \* PolicyLoader.cache: absolute path -> Policy
    lstack,         \* the pending load() calls, innermost last
    lpc,            \* "idle", "loading", "returned", "error"
    ltarget,        \* the path of the outermost load() call
    lresult,        \* what the outermost load() resolved to: <<>> or <<policy>>
    lheap,          \* how many Policy objects were created so far
    lids,           \* which object the cache holds for a path
    llast,          \* the last load() that resolved: path, object, policy
    lprev           \* llast as it was when the outermost load() was called

loaderVars == <<lfs, lallowExtends, lcache, lstack, lpc, ltarget, lresult,
                lheap, lids, llast, lprev>>

\* scanner/secret.ts and reporter/json.ts
VARIABLES
    rsource,        \* the source argument of the scan
    rfiles,         \* contents of the files of the scan context, in order
    rscanned,       \* how many of them the secret scanner has been through
    rfindings,      \* the findings so far
    rmaskSecrets,   \* JsonReportOptions.maskSecrets
    rartifact,      \* the JSON text written, <<>> before
    rpc             \* "idle", "scan", "generated"

reportVars == <<rsource, rfiles, rscanned, rfindings, rmaskSecrets, rartifact, rpc>>

\* scanner/index.ts (ScannerOrchestrator) and scanner/base.ts (BaseScanner)
VARIABLES
    scanners,       \* ScannerOrchestrator.scanners, in registration order
    opc,            \* "idle", "setup", "running", "resolved"
    plan,           \* per scanner, what its scan(context) is going to do
    records,        \* per scanner, the ScannerResult of execute(), or NoRecord
    finishOrder,    \* the indices of the scanners in the order they settled
    results         \* what orchestrator.scan resolved to

orchVars == <<scanners, opc, plan, records, finishOrder, results>>

\* executeScan run twice (scan.ts, ingestor/base.ts)
VARIABLES
    runPolicy,      \* the policy both runs load
    firstRun,       \* the first run: [hash, walk, scanners, results, artifact]
    secondRun,      \* the second run
    rerunPc         \* "idle", "fresh", "once", "twice"

rerunVars == <<runPolicy, firstRun, secondRun, rerunPc>>

\* ingestor/base.ts: collectFiles, processFile, computeSourceHash
VARIABLES
    wdir,           \* readdir of the root directory: its entries, in the order listed
    wpos,           \* how many of them collectFiles has been through
    wfiles,         \* collectFiles: files, so far
    whash,          \* the bytes computeSourceHash fed to SHA-256, <<>> before
    wprev,          \* the ingestion before this one: [files, hash]
    wpc             \* "idle", "walk", "done", "failed"

walkVars == <<wdir, wpos, wfiles, whash, wprev, wpc>>

\* scanner/secret.ts (SecretScanner), the EntrypointDetector and the masking
\* of the reporter, on one file of a source
VARIABLES
    sroot,          \* ScanContext.rootPath: the source path as it was given
    srel,           \* the path of the file relative to the source root
    scontent,       \* the content of the file
    sfindings,      \* the findings of the analyzers, in order
    sreported,      \* the findings of the report after maskReport
    spc             \* "idle", "ingested", "secret", "entrypoint", "reported"

scanVars == <<sroot, srel, scontent, sfindings, sreported, spc>>

vars == <<engineVars, pipeVars, loaderVars, reportVars, orchVars, rerunVars,
          walkVars, scanVars>>

\* ------------------------------------------------------------------------
\* Bounds of the model
\* ------------------------------------------------------------------------
MaxFindings == 3
MaxScanFindings == 2
\* the innermost pending load() calls the model keeps
MaxLoadDepth == 3
\* Policy objects created before the model stops calling load()
MaxObjects == 4
\* files in a scan context of the report model
MaxFiles == 2
\* scanners registered with an orchestrator
MaxScanners == 2
\* files in the directory tree of a source that is scanned twice
MaxTreeFiles == 2
\* entries in the root directory of an ingested source
MaxEntries == 2

\* ------------------------------------------------------------------------
\* JavaScript numbers.  A finite number is kept in units of one half
\* ("twice" is two times its value) so that fractional weights exist; the
\* three IEEE specials are kept as such.
\* ------------------------------------------------------------------------
Num(x)   == [kind |-> "fin", twice |-> 2 * x]
HalfNum(t) == [kind |-> "fin", twice |-> t]
PosInf   == [kind |-> "pinf", twice |-> 0]
NegInf   == [kind |-> "ninf", twice |-> 0]
NaN      == [kind |-> "nan", twice |-> 0]

IsNaN(a)     == a.kind = "nan"
IsFinite(a)  == a.kind = "fin"
IsInteger(a) == a.kind = "fin" /\ a.twice % 2 = 0

\* a + b
Add(a, b) ==
    IF IsNaN(a) \/ IsNaN(b) THEN NaN
    ELSE IF a.kind = "fin" /\ b.kind = "fin" THEN HalfNum(a.twice + b.twice)
    ELSE IF a.kind = "fin" THEN b
    ELSE IF b.kind = "fin" THEN a
    ELSE IF a.kind = b.kind THEN a
    ELSE NaN

\* a <= b (false as soon as one side is NaN)
Leq(a, b) ==
    IF IsNaN(a) \/ IsNaN(b) THEN FALSE
    ELSE IF a.kind = "ninf" \/ b.kind = "pinf" THEN TRUE
    ELSE IF a.kind = "pinf" \/ b.kind = "ninf" THEN FALSE
    ELSE a.twice <= b.twice

\* a > b
Gt(a, b) ==
    IF IsNaN(a) \/ IsNaN(b) THEN FALSE
    ELSE ~Leq(a, b)

\* a < b
Lt(a, b) ==
    IF IsNaN(a) \/ IsNaN(b) THEN FALSE
    ELSE ~Leq(b, a)

\* -a and |a|
Neg(a) ==
    CASE a.kind = "fin"  -> HalfNum(0 - a.twice)
      [] a.kind = "pinf" -> NegInf
      [] a.kind = "ninf" -> PosInf
      [] OTHER           -> NaN

AbsNum(a) == IF IsNaN(a) THEN NaN ELSE IF Leq(a, Num(0)) THEN Neg(a) ELSE a

\* Math.min / Math.max: NaN as soon as one argument is NaN
MathMin(a, b) == IF IsNaN(a) \/ IsNaN(b) THEN NaN ELSE IF Leq(a, b) THEN a ELSE b
MathMax(a, b) == IF IsNaN(a) \/ IsNaN(b) THEN NaN ELSE IF Leq(a, b) THEN b ELSE a

\* ------------------------------------------------------------------------
\* Idle values of each subsystem's variables
\* ------------------------------------------------------------------------
NoEnforcement ==
    [decision |-> "none", exitCode |-> -1, score |-> Num(100), suppressed |-> <<>>,
     criticalBlockRules |-> <<>>]

NoReport ==
    [decision |-> "none", score |-> Num(100), findings |-> <<>>,
     criticalBlockRules |-> <<>>]

EngineIdle ==
    /\ policy = [thresholds |-> [block |-> Num(40), warn |-> Num(70)],
                 critical_block |-> <<>>, rules |-> <<>>, exceptions |-> <<>>]
    /\ findings = <<>>
    /\ score = Num(100)
    /\ triggeredMap = <<>>
    /\ criticalBlockRules = <<>>
    /\ suppressedFindings = <<>>
    /\ result = [score |-> Num(100), triggeredRules |-> <<>>,
                 hasCriticalBlock |-> FALSE, criticalBlockRules |-> <<>>,
                 suppressedFindings |-> <<>>]
    /\ decision = "none"
    /\ epc = "idle"

PipelineIdle ==
    /\ ppc = "idle"
    /\ ipc = "idle"
    /\ sourceKind = "local"
    /\ hasRef = FALSE
    /\ optCleanup = TRUE
    /\ scratchDir = "none"
    /\ scanFindings = <<>>
    /\ scanned = FALSE
    /\ loadedPolicy = "none"
    /\ enforcement = NoEnforcement
    /\ artifact = "none"
    /\ exitCode = -1
    /\ scanReport = NoReport
    /\ failure = "none"

\* no load() has resolved yet
NoLoad == [path |-> "none", id |-> 0, policy |-> <<>>, heap |-> 0, cleared |-> "no"]

LoaderIdle ==
    /\ lfs = <<>>
    /\ lallowExtends = TRUE
    /\ lcache = <<>>
    /\ lstack = <<>>
    /\ lpc = "idle"
    /\ ltarget = "none"
    /\ lresult = <<>>
    /\ lheap = 0
    /\ lids = <<>>
    /\ llast = NoLoad
    /\ lprev = NoLoad

OrchestratorIdle ==
    /\ scanners = <<>>
    /\ opc = "idle"
    /\ plan = <<>>
    /\ records = <<>>
    /\ finishOrder = <<>>
    /\ results = <<>>

NoRun == [hash |-> <<>>, walk |-> <<>>, scanners |-> <<>>, results |-> <<>>,
          artifact |-> NoReport]

NoIngestion == [files |-> <<>>, hash |-> <<>>, done |-> FALSE]

WalkIdle ==
    /\ wdir = <<>>
    /\ wpos = 0
    /\ wfiles = <<>>
    /\ whash = <<>>
    /\ wprev = NoIngestion
    /\ wpc = "idle"

RerunIdle ==
    /\ runPolicy = "none"
    /\ firstRun = NoRun
    /\ secondRun = NoRun
    /\ rerunPc = "idle"

AnalyzerIdle ==
    /\ sroot = <<>>
    /\ srel = <<>>
    /\ scontent = <<>>
    /\ sfindings = <<>>
    /\ sreported = <<>>
    /\ spc = "idle"

ReportIdle ==
    /\ rsource = <<>>
    /\ rfiles = <<>>
    /\ rscanned = 0
    /\ rfindings = <<>>
    /\ rmaskSecrets = TRUE
    /\ rartifact = <<>>
    /\ rpc = "idle"

\* ------------------------------------------------------------------------
\* Findings and policies the model draws from
\* ------------------------------------------------------------------------
\* rule ids: two that a policy may define, one that no policy defines
DefinedRuleIds == {"secret_aws_access_key", "skill_sudo_usage"}
RuleIds == DefinedRuleIds \cup {"dependency_no_lockfile"}

\* a path is the sequence of its segments
DotSegments == {".github"}

FindingPool ==
    { [rule |-> "secret_aws_access_key", severity |-> "critical",
       file |-> <<"src", "config.ts">>],
      [rule |-> "secret_aws_access_key", severity |-> "critical",
       file |-> <<"test", "foo.ts">>],
      [rule |-> "skill_sudo_usage", severity |-> "high",
       file |-> <<"SKILL.md">>],
      [rule |-> "dependency_no_lockfile", severity |-> "medium",
       file |-> <<"package.json">>] }

\* weights a YAML document can give a rule: -30, 20 (the README's example),
\* -0.5, .inf, -.inf, .nan
WeightCandidates == {Num(-30), Num(20), HalfNum(-1), PosInf, NegInf, NaN}

RuleDefCandidates ==
    { [severity |-> "high", weight |-> w, message |-> "rule", enabled |-> TRUE] :
        w \in WeightCandidates }
    \cup { [severity |-> "high", weight |-> Num(-30), message |-> "rule",
            enabled |-> FALSE] }

RuleMapCandidates ==
    UNION { [D -> RuleDefCandidates] : D \in SUBSET DefinedRuleIds }

ThresholdCandidates ==
    { [block |-> Num(40), warn |-> Num(70)],
      [block |-> Num(0), warn |-> Num(100)],
      [block |-> Num(70), warn |-> Num(40)] }

CriticalBlockCandidates ==
    { <<>>, <<"secret_aws_access_key">>, <<"dependency_no_lockfile">>,
      <<"secret_aws_access_key", "dependency_no_lockfile">> }

ExceptionCandidates ==
    { <<>>,
      << [pattern |-> <<"test", "**">>, ignore |-> <<"secret_aws_access_key">>] >> }

PolicyCandidates ==
    [ thresholds : ThresholdCandidates,
      critical_block : CriticalBlockCandidates,
      rules : RuleMapCandidates,
      exceptions : ExceptionCandidates ]

\* ------------------------------------------------------------------------
\* schema.ts: what validatePolicySafe accepts
\* ------------------------------------------------------------------------
\* z.number(): any number but NaN (zod 3 types NaN as "nan"; .finite() is
\* not asked for, so Infinity passes)
ZNumber(a) == ~IsNaN(a)

ThresholdsSchema(t) ==
    /\ ZNumber(t.block) /\ Leq(Num(0), t.block) /\ Leq(t.block, Num(100))
    /\ ZNumber(t.warn) /\ Leq(Num(0), t.warn) /\ Leq(t.warn, Num(100))
    /\ Leq(t.block, t.warn)

RuleDefinitionSchema(d) ==
    /\ d.severity \in {"critical", "high", "medium", "low", "info"}
    /\ ZNumber(d.weight)
    /\ d.message # ""
    /\ d.enabled \in BOOLEAN

ExceptionSchema(e) == Len(e.pattern) >= 1 /\ Len(e.ignore) >= 1

PolicySchema(p) ==
    /\ ThresholdsSchema(p.thresholds)
    /\ \A r \in DOMAIN p.rules : RuleDefinitionSchema(p.rules[r])
    /\ \A i \in 1..Len(p.exceptions) : ExceptionSchema(p.exceptions[i])

ValidPolicies == { p \in PolicyCandidates : PolicySchema(p) }

\* policies with more than one exception, and with the pattern **/*
ExceptionListCandidates ==
    { << [pattern |-> <<"test", "**">>, ignore |-> <<"skill_sudo_usage">>],
         [pattern |-> <<"src", "**">>, ignore |-> <<"secret_aws_access_key">>] >>,
      << [pattern |-> <<"**", "*">>, ignore |-> <<"secret_aws_access_key">>] >> }

ExceptionPolicies ==
    { p \in [ thresholds : { [block |-> Num(40), warn |-> Num(70)] },
              critical_block : { <<>>, <<"secret_aws_access_key">> },
              rules : { <<>> },
              exceptions : ExceptionListCandidates ] : PolicySchema(p) }

\* the policies an engine is built with
EnginePolicies == ValidPolicies \cup ExceptionPolicies

\* ------------------------------------------------------------------------
\* engine.ts
\* ------------------------------------------------------------------------
SeqIncludes(s, x) == \E i \in 1..Len(s) : s[i] = x

IsDot(seg) == seg \in DotSegments

\* minimatch(file, pattern), default options, on paths split at "/":
\* "**" spans any number of segments and "*" one segment, neither matching
\* a segment that starts with "."
RECURSIVE Minimatch(_, _)
Minimatch(f, p) ==
    IF p = <<>> THEN f = <<>>
    ELSE IF p[1] = "**" THEN
        IF Len(p) = 1
        THEN Len(f) >= 1 /\ \A i \in 1..Len(f) : ~IsDot(f[i])
        ELSE \E k \in 0..Len(f) :
                /\ \A i \in 1..k : ~IsDot(f[i])
                /\ Minimatch(SubSeq(f, k + 1, Len(f)), Tail(p))
    ELSE IF f = <<>> THEN FALSE
    ELSE IF p[1] = "*" THEN ~IsDot(f[1]) /\ Minimatch(Tail(f), Tail(p))
    ELSE f[1] = p[1] /\ Minimatch(Tail(f), Tail(p))

\* a variant that takes the pattern from one exception and the rule id from
\* any other
IsSuppressedMutant(pol, finding) ==
    /\ \E i \in 1..Len(pol.exceptions) :
          Minimatch(finding.file, pol.exceptions[i].pattern)
    /\ \E j \in 1..Len(pol.exceptions) :
          SeqIncludes(pol.exceptions[j].ignore, finding.rule)

\* PolicyEngine.isSuppressed
IsSuppressed(pol, finding) ==
    \E i \in 1..Len(pol.exceptions) :
        /\ Minimatch(finding.file, pol.exceptions[i].pattern)
        /\ SeqIncludes(pol.exceptions[i].ignore, finding.rule)

\* PolicyEngine.getDefaultRule
DefaultWeights(severity) ==
    CASE severity = "critical" -> Num(-50)
      [] severity = "high"     -> Num(-20)
      [] severity = "medium"   -> Num(-10)
      [] severity = "low"      -> Num(-5)
      [] severity = "info"     -> Num(0)

GetDefaultRule(severity) ==
    [severity |-> severity, weight |-> DefaultWeights(severity),
     message |-> "severity finding", enabled |-> TRUE]

\* const ruleDef = this.policy.rules[ruleId]  (undefined when absent)
HasRuleDef(pol, ruleId) == ruleId \in DOMAIN pol.rules

\* const effectiveRule = ruleDef || this.getDefaultRule(finding.severity)
EffectiveRule(pol, finding) ==
    IF HasRuleDef(pol, finding.rule) THEN pol.rules[finding.rule]
    ELSE GetDefaultRule(finding.severity)

\* a variant that never skips a rule listed in critical_block
IsDisabledMutant(pol, finding) ==
    /\ HasRuleDef(pol, finding.rule)
    /\ ~pol.rules[finding.rule].enabled
    /\ ~SeqIncludes(pol.critical_block, finding.rule)

\* if (ruleDef && !ruleDef.enabled) continue
IsDisabled(pol, finding) ==
    HasRuleDef(pol, finding.rule) /\ ~pol.rules[finding.rule].enabled

\* a variant that looks at critical_block only for rules the policy defines
CriticalBlockMutant(pol, crit, ruleId) ==
    IF HasRuleDef(pol, ruleId) /\ SeqIncludes(pol.critical_block, ruleId)
          /\ ~SeqIncludes(crit, ruleId)
    THEN Append(crit, ruleId) ELSE crit

\* if (this.policy.critical_block.includes(ruleId)) ... push once
CriticalBlockUpdate(pol, crit, ruleId) ==
    IF SeqIncludes(pol.critical_block, ruleId) /\ ~SeqIncludes(crit, ruleId)
    THEN Append(crit, ruleId) ELSE crit

\* const existing = triggeredMap.get(ruleId)
TriggeredIndex(tmap, ruleId) ==
    IF \E i \in 1..Len(tmap) : tmap[i].rule = ruleId
    THEN CHOOSE i \in 1..Len(tmap) : tmap[i].rule = ruleId
    ELSE 0

\* existing.count++ / triggeredMap.set(ruleId, {...})
TriggeredUpdate(tmap, finding, effectiveRule) ==
    LET i == TriggeredIndex(tmap, finding.rule) IN
    IF i # 0
    THEN [tmap EXCEPT ![i].count = @ + 1, ![i].findings = Append(@, finding)]
    ELSE Append(tmap, [rule |-> finding.rule,
                       severity |-> effectiveRule.severity,
                       weight |-> effectiveRule.weight,
                       message |-> effectiveRule.message,
                       count |-> 1,
                       findings |-> <<finding>>])

\* a variant that adds the weight at every finding
ApplyWeightMutant(sc, existing, weight) == Add(sc, weight)

\* if (!existing) score += effectiveRule.weight
ApplyWeight(sc, existing, weight) == IF ~existing THEN Add(sc, weight) ELSE sc

\* score = Math.max(0, Math.min(100, score))
Clamp(sc) == MathMax(Num(0), MathMin(Num(100), sc))

\* a variant that knows no quarantine
GetDecisionNoWarnMutant(pol, res) ==
    IF res.hasCriticalBlock THEN "block"
    ELSE IF Leq(res.score, pol.thresholds.block) THEN "block"
    ELSE "allow"

\* a variant with strict comparisons
GetDecisionMutant(pol, res) ==
    IF res.hasCriticalBlock THEN "block"
    ELSE IF Lt(res.score, pol.thresholds.block) THEN "block"
    ELSE IF Lt(res.score, pol.thresholds.warn) THEN "quarantine"
    ELSE "allow"

\* PolicyEngine.getDecision
GetDecision(pol, res) ==
    IF res.hasCriticalBlock THEN "block"
    ELSE IF Leq(res.score, pol.thresholds.block) THEN "block"
    ELSE IF Leq(res.score, pol.thresholds.warn) THEN "quarantine"
    ELSE "allow"

\* the body of "for (const finding of findings)" on the loop's locals
\* st = [score, triggeredMap, criticalBlockRules, suppressedFindings]
LoopBody(pol, st, finding) ==
    IF IsSuppressed(pol, finding)
    THEN [st EXCEPT !.suppressedFindings = Append(@, finding)]
    ELSE IF IsDisabled(pol, finding)
    THEN st
    ELSE LET effectiveRule == EffectiveRule(pol, finding)
             existing == TriggeredIndex(st.triggeredMap, finding.rule) # 0
         IN [st EXCEPT
                !.criticalBlockRules = CriticalBlockUpdate(pol, @, finding.rule),
                !.triggeredMap = TriggeredUpdate(@, finding, effectiveRule),
                !.score = ApplyWeight(@, existing, effectiveRule.weight)]

\* the EvaluationResult evaluate() builds from the loop's locals
MakeResult(st) ==
    [score |-> Clamp(st.score),
     triggeredRules |-> st.triggeredMap,
     hasCriticalBlock |-> Len(st.criticalBlockRules) > 0,
     criticalBlockRules |-> st.criticalBlockRules,
     suppressedFindings |-> st.suppressedFindings]

LoopStart ==
    [score |-> Num(100), triggeredMap |-> <<>>, criticalBlockRules |-> <<>>,
     suppressedFindings |-> <<>>]

\* PolicyEngine.evaluate on a whole list
RECURSIVE LoopOver(_, _, _)
LoopOver(pol, st, fs) ==
    IF fs = <<>> THEN st ELSE LoopOver(pol, LoopBody(pol, st, fs[1]), Tail(fs))

Evaluate(pol, fs) == MakeResult(LoopOver(pol, LoopStart, fs))

NoResult == [score |-> Num(100), triggeredRules |-> <<>>, hasCriticalBlock |-> FALSE,
             criticalBlockRules |-> <<>>, suppressedFindings |-> <<>>]

\* new PolicyEngine(policy); evaluate() up to the loop
InitEngine ==
    /\ policy \in EnginePolicies
    /\ findings = <<>>
    /\ score = LoopStart.score
    /\ triggeredMap = LoopStart.triggeredMap
    /\ criticalBlockRules = LoopStart.criticalBlockRules
    /\ suppressedFindings = LoopStart.suppressedFindings
    /\ result = NoResult
    /\ decision = "none"
    /\ epc = "loop"
    /\ PipelineIdle /\ LoaderIdle /\ ReportIdle /\ OrchestratorIdle /\ RerunIdle /\ WalkIdle /\ AnalyzerIdle

\* one iteration of "for (const finding of findings)": the next finding of
\* the input list is any finding of the pool
EvaluateStep ==
    /\ epc = "loop"
    /\ Len(findings) < MaxFindings
    /\ \E finding \in FindingPool :
        LET st == LoopBody(policy,
                           [score |-> score, triggeredMap |-> triggeredMap,
                            criticalBlockRules |-> criticalBlockRules,
                            suppressedFindings |-> suppressedFindings],
                           finding)
        IN /\ findings' = Append(findings, finding)
           /\ score' = st.score
           /\ triggeredMap' = st.triggeredMap
           /\ criticalBlockRules' = st.criticalBlockRules
           /\ suppressedFindings' = st.suppressedFindings
    /\ UNCHANGED <<policy, result, decision, epc>>
    /\ UNCHANGED <<pipeVars, loaderVars, reportVars, orchVars, rerunVars, walkVars, scanVars>>

\* the input list ends: clamp and return the EvaluationResult
EvaluateReturn ==
    /\ epc = "loop"
    /\ result' = MakeResult([score |-> score, triggeredMap |-> triggeredMap,
                              criticalBlockRules |-> criticalBlockRules,
                              suppressedFindings |-> suppressedFindings])
    /\ epc' = "evaluated"
    /\ UNCHANGED <<policy, findings, score, triggeredMap, criticalBlockRules,
                   suppressedFindings, decision>>
    /\ UNCHANGED <<pipeVars, loaderVars, reportVars, orchVars, rerunVars, walkVars, scanVars>>

\* Enforcer.enforce: const decision = this.engine.getDecision(evaluation)
Enforce ==
    /\ epc = "evaluated"
    /\ decision' = GetDecision(policy, result)
    /\ epc' = "decided"
    /\ UNCHANGED <<policy, findings, score, triggeredMap, criticalBlockRules,
                   suppressedFindings, result>>
    /\ UNCHANGED <<pipeVars, loaderVars, reportVars, orchVars, rerunVars, walkVars, scanVars>>

NextEngine ==
    \/ EvaluateStep
    \/ EvaluateReturn
    \/ Enforce

SpecEngine == InitEngine /\ [][NextEngine]_vars

\* ------------------------------------------------------------------------
\* Properties of the policy engine
\* ------------------------------------------------------------------------
\* a finding the evaluation counts: not suppressed, its rule not disabled
Counted(f) == ~IsSuppressed(policy, f) /\ ~IsDisabled(policy, f)

CountedWith(r) ==
    Cardinality({ i \in 1..Len(findings) : Counted(findings[i]) /\ findings[i].rule = r })

RECURSIVE WeightsOnce(_, _)
WeightsOnce(start, tmap) ==
    IF tmap = <<>> THEN start
    ELSE WeightsOnce(Add(start, tmap[1].weight), Tail(tmap))

Evaluated == epc \in {"evaluated", "decided"}

\* C1: a decision of allow implies that the evaluated score is strictly
\* greater than thresholds.warn.
C1_AllowImpliesAboveWarn ==
    (epc = "decided" /\ decision = "allow")
        => Gt(result.score, policy.thresholds.warn)

\* C2: if a counted finding has a rule id listed in critical_block, the
\* decision is block whatever the score, also when policy.rules has no entry
\* for that rule id.
C2_CriticalBlockForcesBlock ==
    (epc = "decided"
        /\ \E i \in 1..Len(findings) :
              /\ Counted(findings[i])
              /\ SeqIncludes(policy.critical_block, findings[i].rule))
        => decision = "block"

C2_Witness ==
    /\ epc = "decided"
    /\ decision = "block"
    /\ Gt(result.score, policy.thresholds.warn)
    /\ \E i \in 1..Len(findings) :
          /\ Counted(findings[i])
          /\ SeqIncludes(policy.critical_block, findings[i].rule)
          /\ findings[i].rule \notin DOMAIN policy.rules

\* C7: k >= 2 counted findings that share a rule id change the score once
\* for that rule id (the running score is 100 plus each triggered rule's
\* weight, once), and the single TriggeredRule of that id has count = k.
C7_DedupByRule ==
    \A r \in RuleIds :
        CountedWith(r) >= 2 =>
            /\ Cardinality({ i \in 1..Len(triggeredMap) : triggeredMap[i].rule = r }) = 1
            /\ \A i \in 1..Len(triggeredMap) :
                  triggeredMap[i].rule = r =>
                      /\ triggeredMap[i].count = CountedWith(r)
                      /\ triggeredMap[i].weight =
                            EffectiveRule(policy, triggeredMap[i].findings[1]).weight
            /\ score = WeightsOnce(Num(100), triggeredMap)

C7_Witness ==
    /\ epc = "decided"
    /\ \E r \in RuleIds :
          /\ CountedWith(r) = 3
          /\ \E i \in 1..Len(triggeredMap) :
                /\ triggeredMap[i].rule = r
                /\ triggeredMap[i].count = 3
                /\ triggeredMap[i].weight = Num(-30)
    /\ score = Num(70)

\* C8: the score an evaluation returns is an integer in the closed range
\* 0..100.
C8_ScoreIntegerInRange ==
    Evaluated =>
        /\ IsInteger(result.score)
        /\ Leq(Num(0), result.score)
        /\ Leq(result.score, Num(100))

\* C9: when a rule id is triggered for the first time, the running score is
\* lowered by exactly |weight| of the effective rule.
C9_FirstTriggerLowersByAbsWeight ==
    [][ (epc = "loop" /\ Len(triggeredMap') = Len(triggeredMap) + 1)
            => score' = Add(score,
                            Neg(AbsNum(triggeredMap'[Len(triggeredMap')].weight)))
      ]_vars

\* C10: the decision is block if a critical-block rule was hit, otherwise
\* block if score <= thresholds.block, otherwise quarantine if
\* score <= thresholds.warn, otherwise allow.
C10_DecisionTable ==
    epc = "decided" =>
        decision =
            IF Len(result.criticalBlockRules) > 0 THEN "block"
            ELSE IF Leq(result.score, policy.thresholds.block) THEN "block"
            ELSE IF Leq(result.score, policy.thresholds.warn) THEN "quarantine"
            ELSE "allow"

C10_Witness ==
    /\ epc = "decided"
    /\ Len(result.criticalBlockRules) = 0
    /\ result.score = policy.thresholds.warn
    /\ Gt(result.score, policy.thresholds.block)
    /\ decision = "quarantine"

\* the source had nothing to report and the policy passes the schema
EmptySourceDecided == epc = "decided" /\ findings = <<>> /\ PolicySchema(policy)

\* C29 as stated: with no findings the decision is allow and the score 100
\* under every valid policy.
C29_EmptySourceAllow ==
    EmptySourceDecided => (decision = "allow" /\ result.score = Num(100))

\* C29: with no findings the score is 100 and nothing is triggered or
\* suppressed under every valid policy; the decision is allow when
\* thresholds.warn is below 100, and otherwise what the thresholds give for
\* a score of 100: quarantine, or block when thresholds.block is 100 too.
C29_EmptySourceAllowBelowWarn100 ==
    EmptySourceDecided =>
        /\ result.score = Num(100)
        /\ result.triggeredRules = <<>>
        /\ result.suppressedFindings = <<>>
        /\ ~result.hasCriticalBlock
        /\ decision = IF Lt(policy.thresholds.warn, Num(100)) THEN "allow"
                      ELSE IF Lt(policy.thresholds.block, Num(100)) THEN "quarantine"
                      ELSE "block"

C29_Witness ==
    /\ EmptySourceDecided
    /\ policy.thresholds.warn = Num(100)
    /\ decision = "quarantine"

\* one exception both matches the file and lists the rule
SingleExceptionHit(f) ==
    \E i \in 1..Len(policy.exceptions) :
        /\ Minimatch(f.file, policy.exceptions[i].pattern)
        /\ SeqIncludes(policy.exceptions[i].ignore, f.rule)

\* the pattern of one exception matches the file, another one lists the rule,
\* and no single exception does both
CrossExceptionOnly(f) ==
    /\ \E i \in 1..Len(policy.exceptions) :
          Minimatch(f.file, policy.exceptions[i].pattern)
    /\ \E j \in 1..Len(policy.exceptions) :
          SeqIncludes(policy.exceptions[j].ignore, f.rule)
    /\ ~SingleExceptionHit(f)

\* C11: the suppressed list holds exactly the findings for which a single
\* exception matches location.file with its glob and lists the rule id; a
\* pattern from one exception and a rule id from another do not combine.
C11_SuppressedIffSingleException ==
    suppressedFindings = SelectSeq(findings, SingleExceptionHit)

C11_Witness ==
    /\ Len(policy.exceptions) = 2
    /\ \E i \in 1..Len(findings) : CrossExceptionOnly(findings[i])
    /\ \E i \in 1..Len(findings) : SingleExceptionHit(findings[i])
    /\ Len(suppressedFindings) = 1

\* policy.rules has an entry for the finding's rule, with enabled = false
RuleSwitchedOff(f) ==
    f.rule \in DOMAIN policy.rules /\ ~policy.rules[f.rule].enabled

\* the finding matches an exception that ignores its rule
ExceptionHit(f) ==
    \E k \in 1..Len(policy.exceptions) :
        /\ Minimatch(f.file, policy.exceptions[k].pattern)
        /\ SeqIncludes(policy.exceptions[k].ignore, f.rule)

\* C14 as stated: a finding whose rule is in policy.rules with enabled =
\* false has no effect on the evaluation (score, triggered rules, suppressed
\* list, critical-block hits): the result is the one of the input without
\* those findings.
C14_DisabledRuleNoEffect ==
    Evaluated =>
        result = Evaluate(policy,
                     SelectSeq(findings, LAMBDA f : ~RuleSwitchedOff(f)))

\* C14 amended: a finding that no exception suppresses and whose rule is in
\* policy.rules with enabled = false has no effect on the evaluation: the
\* result is the one of the input without those findings.
C14_UnsuppressedDisabledNoEffect ==
    Evaluated =>
        result = Evaluate(policy,
                     SelectSeq(findings,
                         LAMBDA f : ExceptionHit(f) \/ ~RuleSwitchedOff(f)))

\* a disabled rule listed in critical_block occurs, not suppressed, next to
\* a counted finding
C14_Witness ==
    /\ Evaluated
    /\ \E i \in 1..Len(findings) :
          /\ RuleSwitchedOff(findings[i])
          /\ ~ExceptionHit(findings[i])
          /\ SeqIncludes(policy.critical_block, findings[i].rule)
    /\ result.triggeredRules # <<>>
    /\ result.criticalBlockRules = <<>>

\* ------------------------------------------------------------------------
\* scan.ts (executeScan) and ingestor/{base,local,git,archive}.ts
\* ------------------------------------------------------------------------
SeqsUpTo(S, n) == UNION { [1..k -> S] : k \in 0..n }

\* a variant with the codes of block and quarantine exchanged
ExitCodesMutant(d) ==
    CASE d = "allow"      -> 0
      [] d = "block"      -> 2
      [] d = "quarantine" -> 1
      [] d = "error"      -> 3

\* ExitCodes / ExitCode
ExitCodes(d) ==
    CASE d = "allow"      -> 0
      [] d = "block"      -> 1
      [] d = "quarantine" -> 2
      [] d = "error"      -> 3

\* DEFAULT_OPTIONS.cleanup
DefaultCleanup == TRUE

\* the policies executeScan loads in the model
PipelinePolicies ==
    { [thresholds |-> [block |-> Num(40), warn |-> Num(70)],
       critical_block |-> <<"secret_aws_access_key">>,
       rules |-> <<>>,
       exceptions |-> <<>>],
      [thresholds |-> [block |-> Num(0), warn |-> Num(100)],
       critical_block |-> <<>>,
       rules |-> <<>>,
       exceptions |-> << [pattern |-> <<"test", "**">>,
                          ignore |-> <<"secret_aws_access_key">>] >>],
      [thresholds |-> [block |-> Num(40), warn |-> Num(70)],
       critical_block |-> <<>>,
       rules |-> <<>>,
       exceptions |-> << [pattern |-> <<"**", "*">>,
                          ignore |-> <<"ci_write_all_permissions">>] >>] }

\* CIRiskAnalyzer.analyzeGitHubWorkflow: `permissions: write-all` in a
\* workflow file, which the walker admits under .github
WorkflowFindings ==
    { [rule |-> "ci_write_all_permissions", severity |-> "high",
       file |-> <<".github", "workflows", "ci.yml">>],
      [rule |-> "ci_write_all_permissions", severity |-> "high",
       file |-> <<"ci", "release.yml">>] }

\* the findings the registered analyzers can return
ScanFindingPool == FindingPool \cup WorkflowFindings

\* the scanners read a file through readFileContent, which gives null once
\* the file is gone
FilesReadable == sourceKind = "local" \/ scratchDir = "exists"

\* executeScan(source, ...): ingestSource picks the ingestor by source type;
\* the ingestor is built with the default options, a library caller may
\* pass cleanup: false and a ref
InitPipeline ==
    /\ ppc = "ingest"
    /\ sourceKind \in {"local", "git", "archive"}
    /\ hasRef \in IF sourceKind = "git" THEN BOOLEAN ELSE {FALSE}
    /\ optCleanup \in IF sourceKind = "local" THEN {DefaultCleanup} ELSE BOOLEAN
    /\ ipc = IF sourceKind = "git" THEN "mkdir" ELSE "validate"
    /\ scratchDir = "none"
    /\ scanFindings = <<>>
    /\ scanned = FALSE
    /\ loadedPolicy = "none"
    /\ enforcement = NoEnforcement
    /\ artifact = "none"
    /\ exitCode = -1
    /\ scanReport = NoReport
    /\ failure = "none"
    /\ EngineIdle /\ LoaderIdle /\ ReportIdle /\ OrchestratorIdle /\ RerunIdle /\ WalkIdle /\ AnalyzerIdle

\* LocalIngestor.validateDirectory / ArchiveIngestor.validateArchive and
\* detectFormat: they throw before any directory is made
IngestValidate ==
    /\ ppc = "ingest" /\ ipc = "validate"
    /\ \E ok \in BOOLEAN :
        ipc' = IF ~ok THEN "failed"
               ELSE IF sourceKind = "local" THEN "build" ELSE "mkdir"
    /\ UNCHANGED <<ppc, sourceKind, hasRef, optCleanup, scratchDir, scanFindings,
                   scanned, loadedPolicy, enforcement, artifact, exitCode, scanReport,
                   failure>>
    /\ UNCHANGED <<engineVars, loaderVars, reportVars, orchVars, rerunVars, walkVars, scanVars>>

\* GitIngestor.createCloneDir / ArchiveIngestor.createExtractDir
IngestMkdir ==
    /\ ppc = "ingest" /\ ipc = "mkdir"
    /\ scratchDir' = "exists"
    /\ ipc' = IF sourceKind = "git" THEN "clone" ELSE "extract"
    /\ UNCHANGED <<ppc, sourceKind, hasRef, optCleanup, scanFindings, scanned,
                   loadedPolicy, enforcement, artifact, exitCode, scanReport,
                   failure>>
    /\ UNCHANGED <<engineVars, loaderVars, reportVars, orchVars, rerunVars, walkVars, scanVars>>

\* the step after a successful clone / checkout / rev-parse / extract
AfterAcquire(at) ==
    CASE at = "clone"    -> IF hasRef THEN "checkout" ELSE "revparse"
      [] at = "checkout" -> "revparse"
      [] at = "revparse" -> "build"
      [] at = "extract"  -> "build"

\* cloneRepository, checkoutRef, getCommitSha, extractArchive: inside the
\* try; a failure runs the catch: cleanup(dir), then rethrow
IngestAcquire ==
    /\ ppc = "ingest" /\ ipc \in {"clone", "checkout", "revparse", "extract"}
    /\ \E ok \in BOOLEAN :
        IF ok
        THEN /\ ipc' = AfterAcquire(ipc)
             /\ UNCHANGED scratchDir
        ELSE /\ ipc' = "failed"
             /\ scratchDir' = "removed"
    /\ UNCHANGED <<ppc, sourceKind, hasRef, optCleanup, scanFindings, scanned,
                   loadedPolicy, enforcement, artifact, exitCode, scanReport,
                   failure>>
    /\ UNCHANGED <<engineVars, loaderVars, reportVars, orchVars, rerunVars, walkVars, scanVars>>

\* after "const context = await this.buildContext(...)" in doIngest:
\* if (this.options.cleanup) await this.cleanup(dir); return context
CleanupAfterBuild(kind, cleanup, dir) ==
    IF kind \in {"git", "archive"} /\ cleanup THEN "removed" ELSE dir

\* BaseIngestor.buildContext (collectFiles may throw on readdir), then the
\* rest of doIngest's try block, or its catch
IngestBuild ==
    /\ ppc = "ingest" /\ ipc = "build"
    /\ \E ok \in BOOLEAN :
        IF ok
        THEN /\ ipc' = "succeeded"
             /\ scratchDir' = CleanupAfterBuild(sourceKind, optCleanup, scratchDir)
        ELSE /\ ipc' = "failed"
             /\ scratchDir' = IF sourceKind = "local" THEN scratchDir ELSE "removed"
    /\ UNCHANGED <<ppc, sourceKind, hasRef, optCleanup, scanFindings, scanned,
                   loadedPolicy, enforcement, artifact, exitCode, scanReport,
                   failure>>
    /\ UNCHANGED <<engineVars, loaderVars, reportVars, orchVars, rerunVars, walkVars, scanVars>>

\* a variant that goes on to the scanners after a failed ingestion
IngestResultMutant ==
    /\ ppc = "ingest" /\ ipc \in {"succeeded", "failed"}
    /\ ppc' = "scan"
    /\ UNCHANGED <<ipc, sourceKind, hasRef, optCleanup, scratchDir, scanFindings,
                   scanned, loadedPolicy, enforcement, artifact, exitCode,
                   scanReport, failure>>
    /\ UNCHANGED <<engineVars, loaderVars, reportVars, orchVars, rerunVars, walkVars, scanVars>>

\* executeScan: if (!ingestResult.success || !ingestResult.context) return ERROR
IngestResult ==
    /\ ppc = "ingest" /\ ipc \in {"succeeded", "failed"}
    /\ IF ipc = "failed"
       THEN ppc' = "done" /\ exitCode' = ExitCodes("error") /\ failure' = "ingest"
       ELSE ppc' = "scan" /\ UNCHANGED <<exitCode, failure>>
    /\ UNCHANGED <<ipc, sourceKind, hasRef, optCleanup, scratchDir, scanFindings,
                   scanned, loadedPolicy, enforcement, artifact, scanReport>>
    /\ UNCHANGED <<engineVars, loaderVars, reportVars, orchVars, rerunVars, walkVars, scanVars>>

\* orchestrator.scan(scanContext) and results.flatMap(r => r.findings)
RunScanners ==
    /\ ppc = "scan"
    /\ scanFindings' \in IF FilesReadable
                         THEN SeqsUpTo(ScanFindingPool, MaxScanFindings)
                         ELSE { <<>> }
    /\ scanned' = TRUE
    /\ ppc' = "load"
    /\ UNCHANGED <<ipc, sourceKind, hasRef, optCleanup, scratchDir, loadedPolicy,
                   enforcement, artifact, exitCode, scanReport,
                   failure>>
    /\ UNCHANGED <<engineVars, loaderVars, reportVars, orchVars, rerunVars, walkVars, scanVars>>

\* policyLoader.load(options.policy) / loadDefault(); a throw lands in
\* executeScan's catch
LoadPolicy ==
    /\ ppc = "load"
    /\ \/ /\ loadedPolicy' \in PipelinePolicies
          /\ ppc' = "enforce"
          /\ UNCHANGED <<exitCode, failure>>
       \/ /\ ppc' = "done"
          /\ exitCode' = ExitCodes("error")
          /\ failure' = "policy"
          /\ UNCHANGED loadedPolicy
    /\ UNCHANGED <<ipc, sourceKind, hasRef, optCleanup, scratchDir, scanFindings,
                   scanned, enforcement, artifact, scanReport>>
    /\ UNCHANGED <<engineVars, loaderVars, reportVars, orchVars, rerunVars, walkVars, scanVars>>

\* Enforcer.enforce(findings)
EnforceFindings(pol, fs) ==
    LET evaluation == Evaluate(pol, fs)
        d == GetDecision(pol, evaluation)
    IN [decision |-> d, exitCode |-> ExitCodes(d), score |-> evaluation.score,
        suppressed |-> evaluation.suppressedFindings,
        criticalBlockRules |-> evaluation.criticalBlockRules]

EnforcePolicy ==
    /\ ppc = "enforce"
    /\ enforcement' = EnforceFindings(loadedPolicy, scanFindings)
    /\ ppc' = "report"
    /\ UNCHANGED <<ipc, sourceKind, hasRef, optCleanup, scratchDir, scanFindings,
                   scanned, loadedPolicy, artifact, exitCode, scanReport,
                   failure>>
    /\ UNCHANGED <<engineVars, loaderVars, reportVars, orchVars, rerunVars, walkVars, scanVars>>

\* executeScan's report: decision, score and criticalBlockRules of the
\* enforcement, findings as the scanners returned them
BuildScanReport(enf, fs) ==
    [decision |-> enf.decision, score |-> enf.score, findings |-> fs,
     criticalBlockRules |-> enf.criticalBlockRules]

\* reporter.write(report, {output, quiet}), then return enforcement.exitCode;
\* writeFile may throw, which lands in executeScan's catch
WriteReport ==
    /\ ppc = "report"
    /\ \E output \in BOOLEAN, quiet \in BOOLEAN, ok \in BOOLEAN :
        IF output /\ ~ok
        THEN /\ artifact' = "none"
             /\ scanReport' = NoReport
             /\ exitCode' = ExitCodes("error")
             /\ failure' = "write"
        ELSE /\ artifact' = IF output THEN "file"
                            ELSE IF ~quiet THEN "stdout" ELSE "none"
             /\ scanReport' = IF output \/ ~quiet
                              THEN BuildScanReport(enforcement, scanFindings)
                              ELSE NoReport
             /\ exitCode' = enforcement.exitCode
             /\ UNCHANGED failure
    /\ ppc' = "done"
    /\ UNCHANGED <<ipc, sourceKind, hasRef, optCleanup, scratchDir, scanFindings,
                   scanned, loadedPolicy, enforcement>>
    /\ UNCHANGED <<engineVars, loaderVars, reportVars, orchVars, rerunVars, walkVars, scanVars>>

NextPipeline ==
    \/ IngestValidate
    \/ IngestMkdir
    \/ IngestAcquire
    \/ IngestBuild
    \/ IngestResult
    \/ RunScanners
    \/ LoadPolicy
    \/ EnforcePolicy
    \/ WriteReport

SpecPipeline == InitPipeline /\ [][NextPipeline]_vars

\* ------------------------------------------------------------------------
\* Properties of the pipeline
\* ------------------------------------------------------------------------
\* the run took an error path: ingestion failed, or executeScan's catch ran
OnErrorPath == ipc = "failed" \/ (ppc = "done" /\ exitCode = ExitCodes("error"))

\* the report has been written from the ingest context, after the analyzers
ReportConsumed == ppc = "done" /\ scanned /\ exitCode # ExitCodes("error")

\* C3: for a VCS or archive source the scratch directory is removed only
\* after the analyzers have run and the report has consumed the ingest
\* context, or on an error path.
C3_ScratchKeptUntilConsumed ==
    (sourceKind \in {"git", "archive"} /\ scratchDir = "removed")
        => (OnErrorPath \/ ReportConsumed)

\* the finding is in the evaluation's suppressed list
InSuppressed(f) ==
    \E j \in 1..Len(enforcement.suppressed) : enforcement.suppressed[j] = f

\* the loaded policy has an exception with pattern **/* that ignores rule r
CatchAllIgnores(r) ==
    \E k \in 1..Len(loadedPolicy.exceptions) :
        /\ loadedPolicy.exceptions[k].pattern = <<"**", "*">>
        /\ SeqIncludes(loadedPolicy.exceptions[k].ignore, r)

\* C12: under an exception with pattern **/* and rule id r, every finding
\* of rule r is suppressed, whatever path the walker gave it, paths under
\* .github included.
C12_CatchAllSuppressesEveryOccurrence ==
    enforcement.decision # "none" =>
        \A i \in 1..Len(scanFindings) :
            CatchAllIgnores(scanFindings[i].rule) => InSuppressed(scanFindings[i])

\* the artifact lists the finding
InArtifactFindings(f) ==
    \E j \in 1..Len(scanReport.findings) : scanReport.findings[j] = f

\* C13: a finding suppressed by an exception is only in the suppressed
\* list: the written artifact does not list it among its findings, and the
\* score is the one the scan has without that finding.
C13_SuppressedOnlyInSuppressed ==
    artifact # "none" =>
        \A i \in 1..Len(scanFindings) :
            InSuppressed(scanFindings[i]) =>
                /\ ~InArtifactFindings(scanFindings[i])
                /\ scanReport.score =
                       EnforceFindings(loadedPolicy,
                           SelectSeq(scanFindings,
                               LAMBDA g : g # scanFindings[i])).score

\* the pipeline stopped before the scoring pass: ingestion failed, or the
\* policy could not be loaded
AbortedBeforeScoring ==
    ppc = "done" /\ failure \in {"ingest", "policy"}

\* C17: when ingestion fails or the policy cannot be loaded executeScan
\* returns 3 and writes no artifact, neither to the output file nor to
\* standard output; an artifact is written only after the scoring pass, and
\* reflects it.
C17_AbortWritesNoArtifact ==
    /\ AbortedBeforeScoring =>
          /\ exitCode = 3
          /\ artifact = "none"
          /\ scanReport = NoReport
    /\ artifact # "none" =>
          /\ ipc = "succeeded"
          /\ scanned
          /\ enforcement = EnforceFindings(loadedPolicy, scanFindings)
          /\ scanReport.decision = enforcement.decision
          /\ scanReport.score = enforcement.score

\* the scanners found something, then the policy could not be loaded
C17_Witness ==
    /\ AbortedBeforeScoring
    /\ ipc = "succeeded"
    /\ scanFindings # <<>>
    /\ failure = "policy"

\* C18: a scan that completes returns the code of its decision alone, 0 for
\* allow, 1 for block, 2 for quarantine; 3 is returned only when the scan
\* failed.
C18_ExitCodeFromDecision ==
    ppc = "done" =>
        IF failure = "none"
        THEN /\ enforcement.decision \in {"allow", "block", "quarantine"}
             /\ exitCode = CASE enforcement.decision = "allow" -> 0
                              [] enforcement.decision = "block" -> 1
                              [] enforcement.decision = "quarantine" -> 2
        ELSE exitCode = 3

\* a completed scan with a blocking decision and findings
C18_Witness ==
    /\ ppc = "done"
    /\ failure = "none"
    /\ enforcement.decision = "block"
    /\ exitCode = 1
    /\ Len(scanFindings) = 2

\* ------------------------------------------------------------------------
\* scanner/index.ts (ScannerOrchestrator) and scanner/base.ts (BaseScanner)
\* ------------------------------------------------------------------------
\* BaseScanner.type of the scanners registered in the model
ScannerTypes == {"secret", "skill", "ci-risk"}

\* what a scanner's scan(context) can resolve to
ScannerOutputs(t) ==
    CASE t = "secret" ->
            { <<>>,
              << [rule |-> "secret_aws_access_key", severity |-> "critical",
                  file |-> <<"src", "config.ts">>] >>,
              << [rule |-> "secret_aws_access_key", severity |-> "critical",
                  file |-> <<"src", "config.ts">>],
                 [rule |-> "secret_aws_access_key", severity |-> "critical",
                  file |-> <<"test", "foo.ts">>] >> }
      [] t = "skill" ->
            { <<>>,
              << [rule |-> "skill_sudo_usage", severity |-> "high",
                  file |-> <<"SKILL.md">>] >> }
      [] t = "ci-risk" ->
            { <<>>,
              << [rule |-> "ci_write_all_permissions", severity |-> "high",
                  file |-> <<".github", "workflows", "ci.yml">>] >> }

\* values a scan can throw or reject with: new Error("boom"), new Error(),
\* the string "fail", undefined
ThrownValues ==
    { [isError |-> TRUE, text |-> "boom"],
      [isError |-> TRUE, text |-> ""],
      [isError |-> FALSE, text |-> "fail"],
      [isError |-> FALSE, text |-> "undefined"] }

NoThrow == [isError |-> FALSE, text |-> ""]

Returns(fs) == [kind |-> "return", findings |-> fs, thrown |-> NoThrow]

Throws(v) == [kind |-> "throw", findings |-> <<>>, thrown |-> v]

Outcomes(t) ==
    { Returns(fs) : fs \in ScannerOutputs(t) } \cup { Throws(v) : v \in ThrownValues }

\* a promise of execute() that has not settled
NoRecord == [scanner |-> "none", findings |-> <<>>, hasError |-> FALSE, error |-> ""]

\* error instanceof Error ? error.message : String(error)
ErrorText(v) == v.text

\* BaseScanner.execute(context): the ScannerResult for the outcome of
\* this.scan(context); duration is a difference of two clock readings and
\* is left out
Execute(t, outcome) ==
    IF outcome.kind = "return"
    THEN [scanner |-> t, findings |-> outcome.findings, hasError |-> FALSE,
          error |-> ""]
    ELSE [scanner |-> t, findings |-> <<>>, hasError |-> TRUE,
          error |-> ErrorText(outcome.thrown)]

\* a variant that hands the records over in the order they settled
PromiseAllMutant(recs, order) == [k \in 1..Len(order) |-> recs[order[k]]]

\* Promise.all(promises): the values in the order of the promises
PromiseAll(recs, order) == recs

\* new ScannerOrchestrator()
InitOrchestrator ==
    /\ scanners = <<>>
    /\ opc = "setup"
    /\ plan = <<>>
    /\ records = <<>>
    /\ finishOrder = <<>>
    /\ results = <<>>
    /\ EngineIdle /\ PipelineIdle /\ LoaderIdle /\ ReportIdle /\ RerunIdle /\ WalkIdle /\ AnalyzerIdle

\* register(scanner)
Register ==
    /\ opc = "setup"
    /\ Len(scanners) < MaxScanners
    /\ \E t \in ScannerTypes : scanners' = Append(scanners, t)
    /\ UNCHANGED <<opc, plan, records, finishOrder, results>>
    /\ UNCHANGED <<engineVars, pipeVars, loaderVars, reportVars, rerunVars, walkVars, scanVars>>

\* scan(context): this.scanners.map(scanner => scanner.execute(context));
\* every execute() starts its scan, none has settled
ScanStart ==
    /\ opc = "setup"
    /\ plan' \in { pl \in [1..Len(scanners) -> UNION { Outcomes(t) : t \in ScannerTypes }] :
                      \A i \in 1..Len(scanners) : pl[i] \in Outcomes(scanners[i]) }
    /\ records' = [i \in 1..Len(scanners) |-> NoRecord]
    /\ opc' = "running"
    /\ UNCHANGED <<scanners, finishOrder, results>>
    /\ UNCHANGED <<engineVars, pipeVars, loaderVars, reportVars, rerunVars, walkVars, scanVars>>

\* one execute() settles: its scan resolved or threw
ExecuteSettle ==
    /\ opc = "running"
    /\ \E i \in 1..Len(scanners) :
        /\ records[i] = NoRecord
        /\ records' = [records EXCEPT ![i] = Execute(scanners[i], plan[i])]
        /\ finishOrder' = Append(finishOrder, i)
    /\ UNCHANGED <<scanners, opc, plan, results>>
    /\ UNCHANGED <<engineVars, pipeVars, loaderVars, reportVars, rerunVars, walkVars, scanVars>>

\* every execute() has settled: Promise.all resolves
ScanResolve ==
    /\ opc = "running"
    /\ \A i \in 1..Len(scanners) : records[i] # NoRecord
    /\ results' = PromiseAll(records, finishOrder)
    /\ opc' = "resolved"
    /\ UNCHANGED <<scanners, plan, records, finishOrder>>
    /\ UNCHANGED <<engineVars, pipeVars, loaderVars, reportVars, rerunVars, walkVars, scanVars>>

NextOrchestrator ==
    \/ Register
    \/ ScanStart
    \/ ExecuteSettle
    \/ ScanResolve

SpecOrchestrator == InitOrchestrator /\ [][NextOrchestrator]_vars

\* ------------------------------------------------------------------------
\* Properties of the orchestrator
\* ------------------------------------------------------------------------
\* C15: when a scanner's scan throws or rejects, with whatever value, the
\* orchestrator's scan still resolves, the record of the failing scanner has
\* no findings and a non-empty error, and the record of every other scanner
\* is the one its own scan gives.
C15_FailureIsolated ==
    opc = "resolved" =>
        \A i \in 1..Len(scanners) :
            IF plan[i].kind = "throw"
            THEN /\ results[i].findings = <<>>
                 /\ results[i].hasError
                 /\ results[i].error # ""
            ELSE results[i] = [scanner |-> scanners[i],
                               findings |-> plan[i].findings,
                               hasError |-> FALSE, error |-> ""]

\* C16: scan returns one record per registered scanner, in registration
\* order, whatever the order in which the scanners finished.
C16_ResultsInRegistrationOrder ==
    opc = "resolved" =>
        /\ Len(results) = Len(scanners)
        /\ \A i \in 1..Len(scanners) :
              /\ results[i].scanner = scanners[i]
              /\ results[i].findings = plan[i].findings

\* two different scanners, the second finished first
C16_Witness ==
    /\ opc = "resolved"
    /\ Len(scanners) = 2
    /\ scanners[1] # scanners[2]
    /\ finishOrder = <<2, 1>>
    /\ results[1].findings # results[2].findings

\* ------------------------------------------------------------------------
\* executeScan run twice: collectFiles, computeSourceHash, the scanners over
\* context.files, the report
\* ------------------------------------------------------------------------
\* the files a source directory can hold: relative path and content
FilePool ==
    { [path |-> <<"a.ts">>, content |-> "aws key"],
      [path |-> <<"b.ts">>, content |-> "aws key"],
      [path |-> <<"SKILL.md">>, content |-> "sudo"] }

\* the paths in the order of a.path.localeCompare(b.path)
PathsSorted == << <<"a.ts">>, <<"b.ts">>, <<"SKILL.md">> >>

\* the directory trees of the sources
Trees == { t \in SUBSET FilePool : Cardinality(t) \in 1..MaxTreeFiles }

\* collectFiles: the files in the order readdir lists them, which the file
\* system decides
Walks(tree) ==
    { w \in [1..Cardinality(tree) -> tree] :
        \A i, j \in 1..Cardinality(tree) : i # j => w[i] # w[j] }

\* computeSourceHash: the files sorted by path, path and content hash of
\* each fed to SHA-256 in that order; the digest is kept as the input it
\* is taken from
SourceDigest(files) ==
    LET present(pth) == \E k \in 1..Len(files) : files[k].path = pth
        fileAt(pth) == CHOOSE f \in { files[k] : k \in 1..Len(files) } : f.path = pth
        sortedPaths == SelectSeq(PathsSorted, present)
    IN [k \in 1..Len(sortedPaths) |->
            << sortedPaths[k], fileAt(sortedPaths[k]).content >>]

\* scanContent of the SecretScanner and of the SkillScanner on one file
ScanOneFile(t, f) ==
    IF t = "secret" /\ f.content = "aws key"
    THEN << [rule |-> "secret_aws_access_key", severity |-> "critical",
             file |-> f.path] >>
    ELSE IF t = "skill" /\ f.content = "sudo"
    THEN << [rule |-> "skill_sudo_usage", severity |-> "high", file |-> f.path] >>
    ELSE <<>>

\* scan(context): Promise.all over context.files, then flat(): the
\* findings in the order of context.files
RECURSIVE ScanFiles(_, _)
ScanFiles(t, files) ==
    IF files = <<>> THEN <<>>
    ELSE ScanOneFile(t, Head(files)) \o ScanFiles(t, Tail(files))

\* results.flatMap(r => r.findings)
RECURSIVE FlatFindings(_)
FlatFindings(rs) ==
    IF rs = <<>> THEN <<>> ELSE Head(rs).findings \o FlatFindings(Tail(rs))

\* createOrchestrator's registrations, and the same two the other way round
RegistrationOrders == { <<"secret", "skill">>, <<"skill", "secret">> }

\* the policies of the runs
RerunPolicies ==
    PipelinePolicies
    \cup { [thresholds |-> [block |-> Num(40), warn |-> Num(70)],
            critical_block |-> <<"secret_aws_access_key", "skill_sudo_usage">>,
            rules |-> <<>>,
            exceptions |-> <<>>] }

\* executeScan on a source whose directory lists as walk, with the scanners
\* registered as reg: ingest, scan, enforce, report
ExecuteScan(pol, walk, reg) ==
    LET recs == [i \in 1..Len(reg) |-> Execute(reg[i], Returns(ScanFiles(reg[i], walk)))]
        rs == PromiseAll(recs, [i \in 1..Len(reg) |-> i])
        fs == FlatFindings(rs)
    IN [hash |-> SourceDigest(walk),
        walk |-> walk,
        scanners |-> reg,
        results |-> rs,
        artifact |-> BuildScanReport(EnforceFindings(pol, fs), fs)]

InitRerun ==
    /\ runPolicy \in RerunPolicies
    /\ firstRun = NoRun
    /\ secondRun = NoRun
    /\ rerunPc = "fresh"
    /\ EngineIdle /\ PipelineIdle /\ LoaderIdle /\ ReportIdle /\ OrchestratorIdle /\ WalkIdle /\ AnalyzerIdle

\* skillgate scan <source>
RunFirst ==
    /\ rerunPc = "fresh"
    /\ \E tree \in Trees : \E walk \in Walks(tree) : \E reg \in RegistrationOrders :
          firstRun' = ExecuteScan(runPolicy, walk, reg)
    /\ rerunPc' = "once"
    /\ UNCHANGED <<runPolicy, secondRun>>
    /\ UNCHANGED <<engineVars, pipeVars, loaderVars, reportVars, orchVars, walkVars, scanVars>>

\* skillgate scan <source> again, with the same policy
RunSecond ==
    /\ rerunPc = "once"
    /\ \E tree \in Trees : \E walk \in Walks(tree) : \E reg \in RegistrationOrders :
          secondRun' = ExecuteScan(runPolicy, walk, reg)
    /\ rerunPc' = "twice"
    /\ UNCHANGED <<runPolicy, firstRun>>
    /\ UNCHANGED <<engineVars, pipeVars, loaderVars, reportVars, orchVars, walkVars, scanVars>>

NextRerun ==
    \/ RunFirst
    \/ RunSecond

SpecRerun == InitRerun /\ [][NextRerun]_vars

\* ------------------------------------------------------------------------
\* Properties of two runs
\* ------------------------------------------------------------------------
\* C19: two runs of the pipeline on sources with the same source hash, with
\* the same policy and the same scanners, give the same artifact (timestamp
\* and duration, which the artifact of the model leaves out, aside), the
\* order of the findings included.
C19_SameHashSameArtifact ==
    (rerunPc = "twice"
        /\ firstRun.hash = secondRun.hash
        /\ firstRun.scanners = secondRun.scanners)
        => firstRun.artifact = secondRun.artifact

\* the registrations of the second run are those of the first, flipped
Flipped ==
    /\ Len(firstRun.scanners) = 2
    /\ secondRun.scanners = << firstRun.scanners[2], firstRun.scanners[1] >>

\* C20: with the registration order of two scanners flipped, the artifact
\* of the same source differs only in that the two blocks of findings have
\* changed places; score and decision are the same.
C20_FlipPermutesFindingBlocks ==
    (rerunPc = "twice" /\ firstRun.walk = secondRun.walk /\ Flipped)
        => /\ secondRun.artifact.findings =
                  firstRun.results[2].findings \o firstRun.results[1].findings
           /\ [secondRun.artifact EXCEPT !.findings = <<>>]
                  = [firstRun.artifact EXCEPT !.findings = <<>>]

\* ------------------------------------------------------------------------
\* policy/loader.ts (PolicyLoader)
\* ------------------------------------------------------------------------
\* absolute paths of policy files
PolicyPaths == {"a.yaml", "b.yaml"}

\* the documents a policy file may hold, as yaml.load gives them, with the
\* values of the keys the file writes; the last one has block > warn
PolicyDocs ==
    { [thresholds |-> [block |-> Num(40), warn |-> Num(70)],
       critical_block |-> <<"secret_aws_access_key">>,
       rules |-> <<>>,
       exceptions |-> <<>>],
      [thresholds |-> [block |-> Num(0), warn |-> Num(100)],
       critical_block |-> <<"dependency_no_lockfile">>,
       rules |-> [r \in {"skill_sudo_usage"} |->
                    [severity |-> "high", weight |-> Num(-30),
                     message |-> "rule", enabled |-> TRUE]],
       exceptions |-> << [pattern |-> <<"test", "**">>,
                          ignore |-> <<"secret_aws_access_key">>] >>],
      [thresholds |-> [block |-> Num(70), warn |-> Num(40)],
       critical_block |-> <<>>,
       rules |-> <<>>,
       exceptions |-> <<>>] }

ThresholdKeys == {"block", "warn"}

\* a file: absent, or a document with or without an extends key. given is
\* the keys its thresholds mapping writes; unknown says that it has a
\* top-level key the schema does not name
PolicyFiles ==
    { [exists |-> FALSE, extends |-> "none", doc |-> d, given |-> ThresholdKeys,
       unknown |-> FALSE] :
        d \in { x \in PolicyDocs : x.critical_block = <<>> } }
    \cup [exists : {TRUE}, extends : PolicyPaths \cup {"none"}, doc : PolicyDocs,
          given : {ThresholdKeys}, unknown : {FALSE}]
    \cup [exists : {TRUE}, extends : PolicyPaths \cup {"none"},
          doc : { x \in PolicyDocs : x.thresholds.block = Num(0) },
          given : (SUBSET ThresholdKeys) \ {ThresholdKeys}, unknown : {FALSE}]
    \cup [exists : {TRUE}, extends : PolicyPaths \cup {"none"},
          doc : { x \in PolicyDocs : x.thresholds.block = Num(40) },
          given : {ThresholdKeys}, unknown : {TRUE}]

\* ThresholdsSchema's .default(40) and .default(70)
ThresholdDefaults == [block |-> Num(40), warn |-> Num(70)]

ParseThresholds(file) ==
    [k \in ThresholdKeys |->
        IF k \in file.given THEN file.doc.thresholds[k] ELSE ThresholdDefaults[k]]

\* what PolicySchema.safeParse gives for the file's document: a z.object
\* leaves out the keys it does not name and fills in the defaults
ParsePolicy(file) == [file.doc EXCEPT !.thresholds = ParseThresholds(file)]

\* validatePolicySafe(rawPolicy).success
ValidatePolicySafe(file) == PolicySchema(ParsePolicy(file))

\* [...new Set([...base, ...override])]: base's entries, then the new ones
RECURSIVE SetUnionSeq(_, _)
SetUnionSeq(base, override) ==
    IF override = <<>> THEN base
    ELSE SetUnionSeq(IF SeqIncludes(base, Head(override)) THEN base
                     ELSE Append(base, Head(override)),
                     Tail(override))

\* {...base.rules, ...override.rules}
SpreadRules(base, override) ==
    [r \in DOMAIN base \cup DOMAIN override |->
        IF r \in DOMAIN override THEN override[r] ELSE base[r]]

\* PolicyLoader.mergePolicy(base, override); both went through the schema,
\* so override.thresholds holds both keys
mergePolicy(base, override) ==
    [thresholds |-> override.thresholds,
     critical_block |-> SetUnionSeq(base.critical_block, override.critical_block),
     rules |-> SpreadRules(base.rules, override.rules),
     exceptions |-> base.exceptions \o override.exceptions]

\* a cache that keeps nothing
CacheSetMutant(cache, path, pol) == cache

\* this.cache.set(path, policy)
CacheSet(cache, path, pol) ==
    [q \in DOMAIN cache \cup {path} |-> IF q = path THEN pol ELSE cache[q]]

\* one more pending call; the model keeps the innermost MaxLoadDepth calls:
\* a chain of more calls than there are files holds a file twice, so none
\* of its calls ever resumes
Push(stack, frame) ==
    IF Len(stack) < MaxLoadDepth THEN Append(stack, frame)
    ELSE Append(Tail(stack), frame)

Top(stack) == stack[Len(stack)]
ReplaceTop(stack, frame) == [stack EXCEPT ![Len(stack)] = frame]
Pop(stack) == SubSeq(stack, 1, Len(stack) - 1)

Frame(path, phase, pol, id) ==
    [path |-> path, phase |-> phase, policy |-> pol, id |-> id]

\* one more Policy object: the result of a parse, or of a merge. A chain
\* with a cycle goes on creating objects; it never returns one, and the
\* model stops counting them
HeapCap == MaxObjects + 2 * Cardinality(PolicyPaths)
NewObject(heap) == IF heap < HeapCap THEN heap + 1 ELSE heap

InitLoader ==
    /\ lfs \in [PolicyPaths -> PolicyFiles]
    /\ lallowExtends \in BOOLEAN
    /\ lcache = <<>>
    /\ lstack = <<>>
    /\ lpc = "idle"
    /\ ltarget = "none"
    /\ lresult = <<>>
    /\ lheap = 0
    /\ lids = <<>>
    /\ llast = NoLoad
    /\ lprev = NoLoad
    /\ EngineIdle /\ PipelineIdle /\ ReportIdle /\ OrchestratorIdle /\ RerunIdle /\ WalkIdle /\ AnalyzerIdle

\* a caller calls load(policyPath)
LoadCall ==
    /\ lpc \in {"idle", "returned", "error"}
    /\ lheap < MaxObjects
    /\ \E path \in PolicyPaths :
        /\ ltarget' = path
        /\ lstack' = << Frame(path, "enter", <<>>, 0) >>
    /\ lpc' = "loading"
    /\ lresult' = <<>>
    /\ lprev' = [llast EXCEPT !.heap = lheap]
    /\ UNCHANGED <<lfs, lallowExtends, lcache, lheap, lids, llast>>
    /\ UNCHANGED <<engineVars, pipeVars, reportVars, orchVars, rerunVars, walkVars, scanVars>>

\* a throw inside load(): no caller of the chain catches it
Throw ==
    /\ lstack' = <<>>
    /\ lpc' = "error"
    /\ lresult' = <<>>
    /\ UNCHANGED <<lfs, lallowExtends, lcache, ltarget, lheap, lids, llast, lprev>>

\* load(): the cache check, readPolicyFile, yaml.load and validatePolicySafe
LoadRead ==
    /\ lpc = "loading" /\ Top(lstack).phase = "enter"
    /\ LET path == Top(lstack).path
           file == lfs[path]
       IN IF path \in DOMAIN lcache
          THEN /\ lstack' = ReplaceTop(lstack,
                                Frame(path, "return", <<lcache[path]>>, lids[path]))
               /\ UNCHANGED <<lfs, lallowExtends, lcache, lpc, ltarget, lresult,
                              lheap, lids, llast, lprev>>
          ELSE IF ~file.exists \/ ~ValidatePolicySafe(file)
          THEN Throw
          ELSE /\ lheap' = NewObject(lheap)
               /\ lstack' = ReplaceTop(lstack,
                                Frame(path, "parsed", <<ParsePolicy(file)>>, lheap'))
               /\ UNCHANGED <<lfs, lallowExtends, lcache, lpc, ltarget, lresult,
                              lids, llast, lprev>>
    /\ UNCHANGED <<engineVars, pipeVars, reportVars, orchVars, rerunVars, walkVars, scanVars>>

\* if (policy.extends && this.allowExtends): the recursive call
FollowsExtends(fs, allow, path) == fs[path].extends # "none" /\ allow

\* load() after validation: call load(parent) and wait for it, or cache
\* the policy and return it
LoadExtends ==
    /\ lpc = "loading" /\ Top(lstack).phase = "parsed"
    /\ LET path == Top(lstack).path
           pol == Top(lstack).policy
           id == Top(lstack).id
       IN IF FollowsExtends(lfs, lallowExtends, path)
          THEN /\ lstack' = Push(ReplaceTop(lstack, Frame(path, "await", pol, id)),
                                 Frame(lfs[path].extends, "enter", <<>>, 0))
               /\ UNCHANGED <<lcache, lids>>
          ELSE /\ lcache' = CacheSet(lcache, path, pol[1])
               /\ lids' = CacheSet(lids, path, id)
               /\ lstack' = ReplaceTop(lstack, Frame(path, "return", pol, id))
    /\ UNCHANGED <<lfs, lallowExtends, lpc, ltarget, lresult, lheap, llast, lprev>>
    /\ UNCHANGED <<engineVars, pipeVars, reportVars, orchVars, rerunVars, walkVars, scanVars>>

\* a load() returns: the caller awaiting it merges, caches and returns in
\* its turn; the outermost call resolves
LoadResume ==
    /\ lpc = "loading" /\ Top(lstack).phase = "return"
    /\ LET value == Top(lstack).policy[1]
           id == Top(lstack).id
       IN IF Len(lstack) = 1
          THEN /\ lstack' = <<>>
               /\ lpc' = "returned"
               /\ lresult' = <<value>>
               /\ llast' = [path |-> ltarget, id |-> id, policy |-> <<value>>,
                            heap |-> lheap,
                            cleared |-> IF lprev.cleared = "during" THEN "during"
                                        ELSE "no"]
               /\ UNCHANGED <<lcache, lheap, lids>>
          ELSE LET parent == lstack[Len(lstack) - 1]
                   merged == mergePolicy(value, parent.policy[1])
               IN /\ lheap' = NewObject(lheap)
                  /\ lcache' = CacheSet(lcache, parent.path, merged)
                  /\ lids' = CacheSet(lids, parent.path, lheap')
                  /\ lstack' = ReplaceTop(Pop(lstack),
                                          Frame(parent.path, "return", <<merged>>, lheap'))
                  /\ UNCHANGED <<lpc, lresult, llast>>
    /\ UNCHANGED <<lfs, lallowExtends, ltarget, lprev>>
    /\ UNCHANGED <<engineVars, pipeVars, reportVars, orchVars, rerunVars, walkVars, scanVars>>

\* the cache was cleared after the load that record stands for, or while
\* a load was under way: that load and the one before it are then neither
\* two loads with a clearCache between them nor two loads without one
Cleared(record, during) ==
    [record EXCEPT !.cleared = IF during THEN "during" ELSE "yes"]

\* clearCache()
ClearCache ==
    /\ lcache # <<>>
    /\ lcache' = <<>>
    /\ lids' = <<>>
    /\ llast' = IF llast.path = "none" THEN llast ELSE Cleared(llast, FALSE)
    /\ lprev' = IF lpc = "loading" THEN Cleared(lprev, TRUE) ELSE lprev
    /\ UNCHANGED <<lfs, lallowExtends, lstack, lpc, ltarget, lresult, lheap>>
    /\ UNCHANGED <<engineVars, pipeVars, reportVars, orchVars, rerunVars, walkVars, scanVars>>

NextLoader ==
    \/ LoadCall
    \/ LoadRead
    \/ LoadExtends
    \/ LoadResume
    \/ ClearCache

SpecLoader == InitLoader /\ [][NextLoader]_vars

\* the event loop runs every continuation that is ready
FairSpecLoader ==
    /\ SpecLoader
    /\ WF_vars(LoadRead)
    /\ WF_vars(LoadExtends)
    /\ WF_vars(LoadResume)

\* ------------------------------------------------------------------------
\* Properties of the loader
\* ------------------------------------------------------------------------
\* following extends from path, through files that load, comes back to a
\* file already on the way
RECURSIVE ChainHasCycle(_, _, _)
ChainHasCycle(fs, path, seen) ==
    IF path \in seen THEN TRUE
    ELSE IF ~fs[path].exists \/ ~ValidatePolicySafe(fs[path]) THEN FALSE
    ELSE IF fs[path].extends = "none" THEN FALSE
    ELSE ChainHasCycle(fs, fs[path].extends, seen \cup {path})

LoadingCycle ==
    lpc = "loading" /\ lallowExtends /\ ChainHasCycle(lfs, ltarget, {})

\* C6: a load whose extends chain holds a cycle ends with a load error: it
\* does not go on forever and it returns no policy.
C6_CycleEndsInLoadError == LoadingCycle ~> (lpc = "error")

\* C23: a load of a policy file with a top-level key that the schema does
\* not name fails: it never returns a policy.
C23_UnknownFieldRejected ==
    lpc = "returned" => ~lfs[ltarget].unknown

\* the value a threshold has when it is taken from the first file, going
\* from path up the extends chain, that writes it
RECURSIVE SpecifiedThreshold(_, _, _, _, _)
SpecifiedThreshold(fs, allow, path, key, seen) ==
    IF key \in fs[path].given THEN fs[path].doc.thresholds[key]
    ELSE IF FollowsExtends(fs, allow, path) /\ fs[path].extends \notin seen
    THEN SpecifiedThreshold(fs, allow, fs[path].extends, key, seen \cup {path})
    ELSE ThresholdDefaults[key]

\* C24: the policy a load returns for a file that extends another has, for
\* block and for warn, the child's value when the child file writes the key
\* and the parent's value otherwise.
C24_ThresholdsMergedFieldByField ==
    (lpc = "returned" /\ FollowsExtends(lfs, lallowExtends, ltarget))
        => \A key \in ThresholdKeys :
              lresult[1].thresholds[key]
                  = SpecifiedThreshold(lfs, lallowExtends, ltarget, key, {})

\* the load that has just resolved is for the path of the load before it
LoadedAgain == lpc = "returned" /\ lprev.path = ltarget

\* C25: a second load of a path returns an equal policy; with no clearCache
\* since the first, it is the same object and no object was created for
\* it; with a clearCache between the two, it is another object.
C25_CacheKeepsObject ==
    LoadedAgain =>
        /\ llast.policy = lprev.policy
        /\ lprev.cleared = "no" => (llast.id = lprev.id /\ lheap = lprev.heap)
        /\ lprev.cleared = "yes" => (llast.id # lprev.id /\ lheap > lprev.heap)

\* a merged policy was loaded, the cache cleared, and the policy loaded again
C25_Witness ==
    /\ LoadedAgain
    /\ lprev.cleared = "yes"
    /\ FollowsExtends(lfs, lallowExtends, ltarget)

\* ------------------------------------------------------------------------
\* Text: a string is the sequence of its characters
\* ------------------------------------------------------------------------
UpperSeq == <<"A", "B", "C", "D", "E", "F", "G", "H", "I", "J", "K", "L", "M", "N", "O", "P", "Q", "R", "S", "T", "U", "V", "W", "X", "Y", "Z">>
LowerSeq == <<"a", "b", "c", "d", "e", "f", "g", "h", "i", "j", "k", "l", "m", "n", "o", "p", "q", "r", "s", "t", "u", "v", "w", "x", "y", "z">>
DigitSeq == <<"0", "1", "2", "3", "4", "5", "6", "7", "8", "9">>
HexSeq == <<"0", "1", "2", "3", "4", "5", "6", "7", "8", "9", "a", "b", "c", "d", "e", "f">>

Range(seq) == { seq[k] : k \in 1..Len(seq) }

Upper == Range(UpperSeq)
Lower == Range(LowerSeq)
Digit == Range(DigitSeq)
Letter == Upper \cup Lower
Alnum == Letter \cup Digit
\* [0-9A-Z]
UpperDigit == Upper \cup Digit
\* [a-zA-Z0-9_-]
TokenChar == Alnum \cup {"_", "-"}
\* [a-zA-Z0-9-]
DashChar == Alnum \cup {"-"}
\* [A-Za-z0-9/+=]
Base64Char == Alnum \cup {"/", "+", "="}
\* \s
Space == {" ", "\t", "\n"}

\* String.prototype.repeat
Repeat(c, n) == [k \in 1..n |-> c]

\* the lower-case form of a character (the i flag)
ToLower(c) ==
    IF c \in Upper THEN LowerSeq[CHOOSE k \in 1..Len(UpperSeq) : UpperSeq[k] = c]
    ELSE c

\* lit stands at position i of s
LitAt(s, i, lit) ==
    /\ i >= 1
    /\ i + Len(lit) - 1 <= Len(s)
    /\ \A k \in 1..Len(lit) : s[i + k - 1] = lit[k]

\* the same, letters compared without case
LitAtI(s, i, lit) ==
    /\ i >= 1
    /\ i + Len(lit) - 1 <= Len(s)
    /\ \A k \in 1..Len(lit) : ToLower(s[i + k - 1]) = lit[k]

\* the position after the longest run of cls characters that starts at i
RunEnd(s, i, cls) ==
    CHOOSE j \in i..(Len(s) + 1) :
        /\ \A k \in i..(j - 1) : s[k] \in cls
        /\ j = Len(s) + 1 \/ s[j] \notin cls

RunLen(s, i, cls) == RunEnd(s, i, cls) - i

\* the first position from i on where c stands, Len(s) + 1 when none
IndexOfChar(s, i, c) == RunEnd(s, i, { s[k] : k \in 1..Len(s) } \ {c})

\* s.includes(t)
Includes(s, t) == \E i \in 1..(Len(s) + 1) : LitAt(s, i, t)

\* ------------------------------------------------------------------------
\* The regular expressions of utils/mask.ts and scanner/secret.ts: the
\* length of the match that starts at position i of s, 0 when none does
\* ------------------------------------------------------------------------
\* lit followed by n characters of cls:  /AKIA[0-9A-Z]{16}/, /ghp_[a-zA-Z0-9]{36}/
MatchLitClass(s, i, lit, cls, n) ==
    IF LitAt(s, i, lit) /\ RunLen(s, i + Len(lit), cls) >= n
    THEN Len(lit) + n ELSE 0

\* /[a-zA-Z0-9_-]{32,}/
MatchGenericToken(s, i) ==
    IF RunLen(s, i, TokenChar) >= 32 THEN RunLen(s, i, TokenChar) ELSE 0

\* "-----BEGIN " or "-----END ", [A-Z]+, " PRIVATE KEY-----"
MatchPemLine(s, i, word) ==
    LET j == i + Len(word)
        e == RunEnd(s, j, Upper)
        tail == <<" ", "P", "R", "I", "V", "A", "T", "E", " ", "K", "E", "Y", "-", "-", "-", "-", "-">>
    IN IF LitAt(s, i, word) /\ e > j /\ LitAt(s, e, tail)
       THEN (e - i) + Len(tail) ELSE 0

\* /-----BEGIN [A-Z]+ PRIVATE KEY-----[\s\S]*?-----END [A-Z]+ PRIVATE KEY-----/
MatchPemBlock(s, i) ==
    LET begin == <<"-", "-", "-", "-", "-", "B", "E", "G", "I", "N", " ">>
        end == <<"-", "-", "-", "-", "-", "E", "N", "D", " ">>
        h == MatchPemLine(s, i, begin)
        ends == { j \in (i + h)..Len(s) : MatchPemLine(s, j, end) > 0 }
    IN IF h > 0 /\ ends # {}
       THEN LET j == CHOOSE x \in ends : \A y \in ends : x <= y
            IN (j - i) + MatchPemLine(s, j, end)
       ELSE 0

\* /(?<![A-Za-z0-9/+=])[A-Za-z0-9/+=]{40}(?![A-Za-z0-9/+=])/
MatchAwsSecretKey(s, i) ==
    IF (i = 1 \/ s[i - 1] \notin Base64Char) /\ RunLen(s, i, Base64Char) = 40
    THEN 40 ELSE 0

\* /sk-(?!ant-)(?:proj-)?[a-zA-Z0-9_-]{20,}/: "proj-" is made of class
\* characters, so with or without it the match runs to the end of the run
MatchOpenAiKey(s, i) ==
    LET sk == <<"s", "k", "-">>
        ant == <<"a", "n", "t", "-">>
    IN IF LitAt(s, i, sk) /\ ~LitAt(s, i + 3, ant) /\ RunLen(s, i + 3, TokenChar) >= 20
       THEN 3 + RunLen(s, i + 3, TokenChar) ELSE 0

\* /-----BEGIN (?:RSA |EC |DSA |OPENSSH )?PRIVATE KEY-----/
MatchPrivateKeyHeader(s, i) ==
    LET begin == <<"-", "-", "-", "-", "-", "B", "E", "G", "I", "N", " ">>
        tail == <<"P", "R", "I", "V", "A", "T", "E", " ", "K", "E", "Y", "-", "-", "-", "-", "-">>
        kinds == { <<>>, <<"R", "S", "A", " ">>, <<"E", "C", " ">>,
                   <<"D", "S", "A", " ">>, <<"O", "P", "E", "N", "S", "S", "H", " ">> }
        fits == { k \in kinds : LitAt(s, i, begin \o k \o tail) }
    IN IF fits = {} THEN 0
       ELSE Len(begin) + Len(CHOOSE k \in fits : TRUE) + Len(tail)

\* /[a-zA-Z]+:\/\/[^:]+:[^@]+@/
MatchPasswordInUrl(s, i) ==
    LET a == RunEnd(s, i, Letter)
        colon == IndexOfChar(s, a + 3, ":")
        at == IndexOfChar(s, colon + 1, "@")
    IN IF /\ a > i
          /\ LitAt(s, a, <<":", "/", "/">>)
          /\ colon > a + 3 /\ colon <= Len(s)
          /\ at > colon + 1 /\ at <= Len(s)
       THEN at - i + 1 ELSE 0

\* /(?:api[_-]?key|apikey|api[_-]?secret)\s*[:=]\s*['"]?([a-zA-Z0-9_-]{20,})['"]?/gi
MatchGenericApiKey(s, i) ==
    LET api == <<"a", "p", "i">>
        sep == IF i + 3 <= Len(s) /\ s[i + 3] \in {"_", "-"} THEN 1 ELSE 0
        words == { <<"k", "e", "y">>, <<"s", "e", "c", "r", "e", "t">> }
        fits == { w \in words : LitAtI(s, i + 3 + sep, w) }
        w == CHOOSE x \in fits : TRUE
        a == RunEnd(s, i + 3 + sep + Len(w), Space)
        b == RunEnd(s, a + 1, Space)
        c == IF b <= Len(s) /\ s[b] \in {"'", "\""} THEN b + 1 ELSE b
        d == RunEnd(s, c, TokenChar)
        e == IF d <= Len(s) /\ s[d] \in {"'", "\""} THEN d + 1 ELSE d
    IN IF /\ LitAtI(s, i, api)
          /\ fits # {}
          /\ a <= Len(s) /\ s[a] \in {":", "="}
          /\ d - c >= 20
       THEN e - i ELSE 0

\* /eyJ[a-zA-Z0-9_-]*\.eyJ[a-zA-Z0-9_-]*\.[a-zA-Z0-9_-]*/
MatchJwt(s, i) ==
    LET eyJ == <<"e", "y", "J">>
        dotEyJ == <<".", "e", "y", "J">>
        a == RunEnd(s, i + 3, TokenChar)
        b == RunEnd(s, a + 4, TokenChar)
    IN IF /\ LitAt(s, i, eyJ)
          /\ LitAt(s, a, dotEyJ)
          /\ b <= Len(s) /\ s[b] = "."
       THEN RunEnd(s, b + 1, TokenChar) - i ELSE 0

\* /curl\s+[^|]*\|\s*(?:bash|sh|zsh)/gi and the same with wget: [^|]* ends
\* at the first "|"
MatchPipeShell(s, i, tool) ==
    LET a == RunEnd(s, i + Len(tool), Space)
        bar == IndexOfChar(s, a, "|")
        b == RunEnd(s, bar + 1, Space)
        shells == << <<"b", "a", "s", "h">>, <<"s", "h">>, <<"z", "s", "h">> >>
        fits == { k \in 1..Len(shells) : LitAtI(s, b, shells[k]) }
    IN IF /\ LitAtI(s, i, tool)
          /\ a > i + Len(tool)
          /\ bar <= Len(s)
          /\ fits # {}
       THEN LET k == CHOOSE x \in fits : \A y \in fits : x <= y
            IN (b - i) + Len(shells[k])
       ELSE 0

\* /python[3]?\s+-c\s+['"].*(?:urllib|requests).*exec/gi: on one line, the
\* last exec that stands behind a urllib or a requests
MatchPythonExecUrl(s, i) ==
    LET python == <<"p", "y", "t", "h", "o", "n">>
        three == IF LitAt(s, i + 6, <<"3">>) THEN 1 ELSE 0
        a == RunEnd(s, i + 6 + three, Space)
        b == RunEnd(s, a + 2, Space)
        eol == IndexOfChar(s, b + 1, "\n")
        libs == { <<"u", "r", "l", "l", "i", "b">>,
                  <<"r", "e", "q", "u", "e", "s", "t", "s">> }
        ends == { e \in (b + 1)..(eol - 4) :
                    /\ LitAtI(s, e, <<"e", "x", "e", "c">>)
                    /\ \E l \in libs : \E j \in (b + 1)..(e - Len(l)) : LitAtI(s, j, l) }
    IN IF /\ LitAtI(s, i, python)
          /\ a > i + 6 + three
          /\ LitAtI(s, a, <<"-", "c">>)
          /\ b > a + 2
          /\ b <= Len(s) /\ s[b] \in {"'", "\""}
          /\ ends # {}
       THEN (CHOOSE e \in ends : \A o \in ends : e >= o) + 4 - i
       ELSE 0

\* /^RUN\s+(.+)/m and /^ENTRYPOINT\s+(.+)/m: the length of the match and
\* where its group starts; when the white space runs to the end of the
\* text, \s+ gives back up to the last character that is not a line break
MatchDockerLine(s, i, word) ==
    LET a == RunEnd(s, i + Len(word), Space)
        back == { g \in (i + Len(word) + 1)..(a - 1) : s[g] # "\n" }
        g == IF a <= Len(s) THEN a
             ELSE IF back # {} THEN CHOOSE x \in back : \A y \in back : x >= y
             ELSE 0
    IN IF /\ (i = 1 \/ s[i - 1] = "\n")
          /\ LitAt(s, i, word)
          /\ a > i + Len(word)
          /\ g > 0
       THEN [length |-> IndexOfChar(s, g, "\n") - i, group |-> g]
       ELSE [length |-> 0, group |-> 0]

\* the pattern called name, tried at position i of s
Match(name, s, i) ==
    CASE name = "aws_access_key" -> MatchLitClass(s, i, <<"A", "K", "I", "A">>, UpperDigit, 16)
      [] name = "aws_secret_key" -> MatchAwsSecretKey(s, i)
      [] name = "github_token" -> MatchLitClass(s, i, <<"g", "h", "p", "_">>, Alnum, 36)
      [] name = "github_oauth" -> MatchLitClass(s, i, <<"g", "h", "o", "_">>, Alnum, 36)
      [] name = "github_user_to_server" -> MatchLitClass(s, i, <<"g", "h", "u", "_">>, Alnum, 36)
      [] name = "github_server_to_server" -> MatchLitClass(s, i, <<"g", "h", "s", "_">>, Alnum, 36)
      [] name = "github_refresh" -> MatchLitClass(s, i, <<"g", "h", "r", "_">>, Alnum, 36)
      [] name = "openai_key" -> MatchOpenAiKey(s, i)
      [] name = "anthropic_key" -> MatchLitClass(s, i, <<"s", "k", "-", "a", "n", "t", "-">>, DashChar, 95)
      [] name = "private_key" -> MatchPrivateKeyHeader(s, i)
      [] name = "password_in_url" -> MatchPasswordInUrl(s, i)
      [] name = "generic_api_key" -> MatchGenericApiKey(s, i)
      [] name = "jwt_token" -> MatchJwt(s, i)
      [] name = "generic_token" -> MatchGenericToken(s, i)
      [] name = "pem_block" -> MatchPemBlock(s, i)
      [] name = "curl_pipe_bash" -> MatchPipeShell(s, i, <<"c", "u", "r", "l">>)
      [] name = "wget_pipe_bash" -> MatchPipeShell(s, i, <<"w", "g", "e", "t">>)
      [] name = "python_exec_url" -> MatchPythonExecUrl(s, i)

\* pattern.exec(content) until null: the matched texts, left to right
\* starts holds the positions of s where the pattern matches; the next
\* match is the first of them at or behind lastIndex
LeastOf(S) == CHOOSE m \in S : \A o \in S : m <= o

RECURSIVE ExecFrom(_, _, _, _)
ExecFrom(name, s, starts, lastIndex) ==
    LET rest == {k \in starts : k >= lastIndex}
    IN IF rest = {} THEN <<>>
       ELSE LET j == LeastOf(rest)
                n == Match(name, s, j)
            IN << [index |-> j, text |-> SubSeq(s, j, j + n - 1)] >>
               \o ExecFrom(name, s, starts, j + n)

ExecAll(name, s, i) ==
    ExecFrom(name, s, {j \in i..Len(s) : Match(name, s, j) > 0}, i)

\* some match of the pattern in s
Test(name, s) == \E i \in 1..Len(s) : Match(name, s, i) > 0

\* ------------------------------------------------------------------------
\* utils/mask.ts
\* ------------------------------------------------------------------------
Min(a, b) == IF a <= b THEN a ELSE b


\* a masker that writes a letter for every hidden character and no marker
maskSecretMutant(value) ==
    IF Len(value) <= 4 + 4 THEN Repeat("*", Len(value))
    ELSE SubSeq(value, 1, 4) \o Repeat("x", Len(value) - 4 - 4)

\* maskSecret(value) with the default prefixLength 4, suffixLength 4, "*"
maskSecret(value) ==
    IF Len(value) <= 4 + 4 THEN Repeat("*", Len(value))
    ELSE SubSeq(value, 1, 4) \o Repeat("*", Min(Len(value) - 4 - 4, 8))
         \o <<"[", "M", "A", "S", "K", "E", "D", "]">>

\* mask.ts SECRET_PATTERNS, in order
MaskPatterns ==
    << "aws_access_key", "github_token", "github_oauth", "github_user_to_server",
       "github_server_to_server", "github_refresh", "generic_token", "pem_block" >>

\* text.replace(pattern, (match) => maskSecret(match)) with a g pattern
RECURSIVE ReplaceFrom(_, _, _, _)
ReplaceFrom(name, s, starts, lastIndex) ==
    LET rest == {k \in starts : k >= lastIndex}
    IN IF rest = {} THEN SubSeq(s, lastIndex, Len(s))
       ELSE LET j == LeastOf(rest)
                n == Match(name, s, j)
            IN SubSeq(s, lastIndex, j - 1) \o maskSecret(SubSeq(s, j, j + n - 1))
               \o ReplaceFrom(name, s, starts, j + n)

ReplaceAll(name, s, i) ==
    ReplaceFrom(name, s, {j \in i..Len(s) : Match(name, s, j) > 0}, i)

\* for (const pattern of secretPatterns) masked = masked.replace(...)
RECURSIVE ReplaceEach(_, _)
ReplaceEach(names, s) ==
    IF names = <<>> THEN s
    ELSE ReplaceEach(Tail(names), ReplaceAll(Head(names), s, 1))

\* /^[a-zA-Z0-9_-]{20,}$/.test(evidence)
LooksLikeSecret(evidence) ==
    Len(evidence) >= 20 /\ \A k \in 1..Len(evidence) : evidence[k] \in TokenChar

maskEvidence(evidence) ==
    IF LooksLikeSecret(evidence) THEN maskSecret(evidence)
    ELSE ReplaceEach(MaskPatterns, evidence)

maskFindingEvidence(finding) ==
    IF finding.evidence = <<>> THEN finding
    ELSE [finding EXCEPT !.evidence = maskEvidence(finding.evidence)]

\* ------------------------------------------------------------------------
\* scanner/secret.ts (SecretScanner)
\* ------------------------------------------------------------------------
\* secret.ts SECRET_PATTERNS, in order
ScannerPatterns ==
    << "aws_access_key", "aws_secret_key", "github_token", "github_oauth",
       "github_user_to_server", "github_server_to_server", "github_refresh",
       "openai_key", "anthropic_key", "private_key", "password_in_url",
       "generic_api_key", "jwt_token" >>

\* the findings of one pattern; matched keeps match[0] beside the finding
MatchFindings(name, content, file) ==
    LET ms == ExecAll(name, content, 1)
    IN [k \in 1..Len(ms) |->
          [rule |-> name, file |-> file,
           evidence |-> maskEvidence(ms[k].text), matched |-> ms[k].text]]

\* SecretScanner.scanContent
RECURSIVE scanContent(_, _, _)
scanContent(names, content, file) ==
    IF names = <<>> THEN <<>>
    ELSE MatchFindings(Head(names), content, file)
         \o scanContent(Tail(names), content, file)

\* ------------------------------------------------------------------------
\* reporter/json.ts (JsonReporter) and the report of executeScan
\* ------------------------------------------------------------------------
\* contents of scanned files
FileContents ==
    {
      \* the access key of the AWS documentation
      << "A", "K", "I", "A", "I", "O", "S", "F", "O", "D", "N", "N",
         "7", "E", "X", "A", "M", "P", "L", "E" >>,
      \* a GitHub personal access token in a line of text
      << "t", "o", "k", "e", "n", ":", " ", "g", "h", "p", "_", "a",
         "1", "B", "2", "c", "3", "D", "4", "e", "5", "F", "6", "g",
         "7", "H", "8", "i", "9", "J", "0", "k", "1", "L", "2", "m",
         "3", "N", "4", "o", "5", "P", "6", "q", "7", "R", "8" >>,
      \* the secret key of the AWS documentation
      << "k", "e", "y", ":", " ", "w", "J", "a", "l", "r", "X", "U",
         "t", "n", "F", "E", "M", "I", "/", "K", "7", "M", "D", "E",
         "N", "G", "/", "b", "P", "x", "R", "f", "i", "C", "Y", "E",
         "X", "A", "M", "P", "L", "E", "K", "E", "Y" >>,
      \* a URL with a password
      << "h", "t", "t", "p", "s", ":", "/", "/", "a", "d", "m", "i",
         "n", ":", "h", "u", "n", "t", "e", "r", "2", "@", "d", "b",
         ".", "l", "o", "c", "a", "l" >>,
      \* an API key of 20 characters
      << "a", "p", "i", "_", "k", "e", "y", "=", "a", "b", "c", "d",
         "e", "f", "g", "h", "i", "j", "0", "1", "2", "3", "4", "5",
         "6", "7", "8", "9" >>,
      \* an OpenAI key
      << "s", "k", "-", "a", "b", "c", "d", "e", "f", "g", "h", "i",
         "j", "0", "1", "2", "3", "4", "5", "6", "7", "8", "9" >>,
      \* a private key block
      << "-", "-", "-", "-", "-", "B", "E", "G", "I", "N", " ", "R",
         "S", "A", " ", "P", "R", "I", "V", "A", "T", "E", " ", "K",
         "E", "Y", "-", "-", "-", "-", "-", "\n", "M", "I", "I", "E",
         "v", "Q", "+", "/", "\n", "-", "-", "-", "-", "-", "E", "N",
         "D", " ", "R", "S", "A", " ", "P", "R", "I", "V", "A", "T",
         "E", " ", "K", "E", "Y", "-", "-", "-", "-", "-" >>,
      \* no secret
      << "h", "e", "l", "l", "o", " ", "w", "o", "r", "l", "d" >>
    }

\* the source argument of the scan: a directory, or a clone URL that
\* carries a GitHub token
SourceArgs ==
    { <<".">>,
      << "h", "t", "t", "p", "s", ":", "/", "/", "g", "h", "p", "_",
         "a", "1", "B", "2", "c", "3", "D", "4", "e", "5", "F", "6",
         "g", "7", "H", "8", "i", "9", "J", "0", "k", "1", "L", "2",
         "m", "3", "N", "4", "o", "5", "P", "6", "q", "7", "R", "8",
         "@", "g", "i", "t", "h", "u", "b", ".", "c", "o", "m", "/",
         "o", "/", "r" >> }

\* relative path of the k-th file
FilePath(k) == << "f", DigitSeq[k + 1] >>

\* computeSourceHash: hash.digest('hex') of a SHA-256, 64 hex digits that
\* depend on the paths and contents; the digits here stand for the digest
RECURSIVE TotalLen(_)
TotalLen(files) ==
    IF files = <<>> THEN 0 ELSE Len(Head(files)) + TotalLen(Tail(files))

computeSourceHash(files) ==
    [k \in 1..64 |-> HexSeq[((TotalLen(files) + 7 * k) % 16) + 1]]

\* what JSON.stringify writes for a string
RECURSIVE JsonEscape(_)
JsonEscape(s) ==
    IF s = <<>> THEN <<>>
    ELSE (CASE Head(s) = "\"" -> << "\\", "\"" >>
            [] Head(s) = "\\" -> << "\\", "\\" >>
            [] Head(s) = "\n" -> << "\\", "n" >>
            [] Head(s) = "\t" -> << "\\", "t" >>
            [] OTHER -> << Head(s) >>)
         \o JsonEscape(Tail(s))

JsonString(s) == << "\"" >> \o JsonEscape(s) \o << "\"" >>

\* maskReport(report)
maskReport(report) ==
    [report EXCEPT !.findings =
        [k \in 1..Len(report.findings) |-> maskFindingEvidence(report.findings[k])]]

\* the findings as the report holds them
ReportFinding(f) == [rule |-> f.rule, file |-> f.file, evidence |-> f.evidence]

\* executeScan's report: the fields whose text comes from the input
BuildReport(source, files, fs) ==
    [source |-> [path |-> source, hash |-> computeSourceHash(files)],
     findings |-> [k \in 1..Len(fs) |-> ReportFinding(fs[k])]]

RECURSIVE FindingsJson(_)
FindingsJson(fs) ==
    IF fs = <<>> THEN <<>>
    ELSE JsonString(Head(fs).file) \o << "," >> \o JsonString(Head(fs).evidence)
         \o << "," >> \o FindingsJson(Tail(fs))

\* JsonReporter.generate(report, {maskSecrets})
generate(report, maskSecrets) ==
    LET outputReport == IF maskSecrets THEN maskReport(report) ELSE report
    IN JsonString(outputReport.source.path) \o << "," >>
       \o JsonString(outputReport.source.hash) \o << "," >>
       \o FindingsJson(outputReport.findings)

InitReport ==
    /\ rsource \in SourceArgs
    /\ rfiles \in SeqsUpTo(FileContents, MaxFiles)
    /\ rscanned = 0
    /\ rfindings = <<>>
    /\ rmaskSecrets \in BOOLEAN
    /\ rartifact = <<>>
    /\ rpc = "scan"
    /\ EngineIdle /\ PipelineIdle /\ LoaderIdle /\ OrchestratorIdle /\ RerunIdle /\ WalkIdle /\ AnalyzerIdle

\* SecretScanner.scan: the next file of context.files
ScanFile ==
    /\ rpc = "scan" /\ rscanned < Len(rfiles)
    /\ rfindings' = rfindings
           \o scanContent(ScannerPatterns, rfiles[rscanned + 1], FilePath(rscanned + 1))
    /\ rscanned' = rscanned + 1
    /\ UNCHANGED <<rsource, rfiles, rmaskSecrets, rartifact, rpc>>
    /\ UNCHANGED <<engineVars, pipeVars, loaderVars, orchVars, rerunVars, walkVars, scanVars>>

\* executeScan builds the report and JsonReporter.write emits it
WriteJson ==
    /\ rpc = "scan" /\ rscanned = Len(rfiles)
    /\ rartifact' = generate(BuildReport(rsource, rfiles, rfindings), rmaskSecrets)
    /\ rpc' = "generated"
    /\ UNCHANGED <<rsource, rfiles, rscanned, rfindings, rmaskSecrets>>
    /\ UNCHANGED <<engineVars, pipeVars, loaderVars, orchVars, rerunVars, walkVars, scanVars>>

NextReport ==
    \/ ScanFile
    \/ WriteJson

SpecReport == InitReport /\ [][NextReport]_vars

\* ------------------------------------------------------------------------
\* Properties of the secret scanner, the masker and the JSON report
\* ------------------------------------------------------------------------
\* C4: once the artifact is written with the default masking, the text the
\* secret scanner matched for a finding occurs nowhere in the artifact.
C4_RawSecretNotInArtifact ==
    (rpc = "generated" /\ rmaskSecrets)
        => \A k \in 1..Len(rfindings) : ~Includes(rartifact, rfindings[k].matched)

\* C5: once the artifact is written with the default masking, no pattern of
\* the masker's catalog matches anywhere in the artifact.
C5_NoCatalogPatternInArtifact ==
    (rpc = "generated" /\ rmaskSecrets)
        => \A k \in 1..Len(MaskPatterns) : ~Test(MaskPatterns[k], rartifact)

\* ------------------------------------------------------------------------
\* ingestor/base.ts (BaseIngestor): collectFiles, processFile,
\* shouldExclude, computeSourceHash
\* ------------------------------------------------------------------------
\* createHash('sha256').update(content).digest('hex'): 64 hex digits that
\* depend on the content; the digits here stand for the digest
ContentHash(content) ==
    [k \in 1..64 |-> HexSeq[((k * (IF content = "c1" THEN 3 ELSE 5)) % 16) + 1]]

\* DEFAULT_OPTIONS.exclude, the names the model's directories use
ExcludeNames == { <<"d", "i", "s", "t">> }

GithubName == <<".", "g", "i", "t", "h", "u", "b">>

File(name, content, readable) ==
    [name |-> name, kind |-> "file", readable |-> readable, content |-> content,
     children |-> <<>>]

Dir(name, readable, children) ==
    [name |-> name, kind |-> "dir", readable |-> readable, content |-> "",
     children |-> children]

\* the entries a root directory can hold.  "U+00E9" stands for the one
\* code point e-acute, <<"e", "U+0301">> for e followed by the combining
\* acute accent: two different names that are canonically equivalent
EntryPool ==
    { File(<<"x">>, "c1", TRUE),
      File(<<"y">>, "c2", TRUE),
      \* a file whose name holds the digest of another file's content
      File(<<"x">> \o ContentHash("c1") \o <<"y">>, "c2", TRUE),
      File(<<"U+00E9">>, "c1", TRUE),
      File(<<"e", "U+0301">>, "c2", TRUE),
      \* stat or readFile fails with EACCES
      File(<<"z">>, "c1", FALSE),
      \* readdir fails with EACCES
      Dir(<<"l", "o", "c", "k", "e", "d">>, FALSE, <<>>),
      Dir(<<"s">>, TRUE, << File(<<"a">>, "c1", TRUE) >>),
      Dir(<<"d", "i", "s", "t">>, TRUE, << File(<<"a">>, "c2", TRUE) >>),
      Dir(GithubName, TRUE, << File(<<"w">>, "c2", TRUE) >>) }

\* readdir(dir, {withFileTypes: true}): the entries in the order the file
\* system lists them
Listings ==
    { l \in UNION { [1..n -> EntryPool] : n \in 0..MaxEntries } :
        \A i, j \in 1..Len(l) : i # j => l[i].name # l[j].name }

\* shouldExclude(name, relativePath), relativePath given by its segments
ShouldExclude(name, segs) ==
    IF name[1] = "."
    THEN ~(name = GithubName \/ (Len(segs) >= 2 /\ segs[1] = GithubName))
    ELSE name \in ExcludeNames \/ \E k \in 1..Len(segs) : segs[k] \in ExcludeNames

\* relative(rootDir, absolutePath): the segments joined with "/"
RECURSIVE JoinPath(_)
JoinPath(segs) ==
    IF Len(segs) = 1 THEN segs[1]
    ELSE segs[1] \o <<"/">> \o JoinPath(Tail(segs))

\* processFile(absolutePath, relativePath): the IngestedFile in a sequence,
\* or nothing when stat or readFile throws
ProcessFile(entry, segs) ==
    IF entry.readable
    THEN << [path |-> JoinPath(segs), hash |-> ContentHash(entry.content)] >>
    ELSE <<>>

\* the loop of collectFiles over the entries of a subdirectory
RECURSIVE CollectChildren(_, _)
CollectChildren(children, parent) ==
    IF children = <<>> THEN <<>>
    ELSE LET entry == Head(children)
             segs == << parent, entry.name >>
         IN (IF ShouldExclude(entry.name, segs) THEN <<>>
             ELSE ProcessFile(entry, segs))
            \o CollectChildren(Tail(children), parent)

\* collectFiles(rootDir, absolutePath) on a subdirectory: readdir throws
\* when the directory cannot be read
CollectSubdir(entry) ==
    IF entry.readable
    THEN [ok |-> TRUE, files |-> CollectChildren(entry.children, entry.name)]
    ELSE [ok |-> FALSE, files |-> <<>>]

\* the canonical decomposition of a name
RECURSIVE Decompose(_)
Decompose(name) ==
    IF name = <<>> THEN <<>>
    ELSE (IF Head(name) = "U+00E9" THEN <<"e", "U+0301">> ELSE << Head(name) >>)
         \o Decompose(Tail(name))

\* the characters of the model's names in collation order: punctuation,
\* digits, letters; the accent after them
CollationOrder == <<".", "/">> \o DigitSeq \o LowerSeq \o <<"U+0301">>

CharRank(c) == CHOOSE k \in 1..Len(CollationOrder) : CollationOrder[k] = c

RECURSIVE LexCompare(_, _)
LexCompare(a, b) ==
    IF a = <<>> /\ b = <<>> THEN 0
    ELSE IF a = <<>> THEN -1
    ELSE IF b = <<>> THEN 1
    ELSE IF CharRank(Head(a)) < CharRank(Head(b)) THEN -1
    ELSE IF CharRank(Head(a)) > CharRank(Head(b)) THEN 1
    ELSE LexCompare(Tail(a), Tail(b))

\* a.localeCompare(b): collation compares canonically equivalent strings
\* as equal
LocaleCompare(a, b) == LexCompare(Decompose(a), Decompose(b))

\* one element put into a sorted list behind everything that does not
\* compare greater: Array.prototype.sort is stable
RECURSIVE InsertStable(_, _)
InsertStable(sorted, f) ==
    IF sorted = <<>> THEN << f >>
    ELSE IF LocaleCompare(Head(sorted).path, f.path) <= 0
    THEN << Head(sorted) >> \o InsertStable(Tail(sorted), f)
    ELSE << f >> \o sorted

\* [...files].sort((a, b) => a.path.localeCompare(b.path))
RECURSIVE SortFiles(_)
SortFiles(files) ==
    IF files = <<>> THEN <<>>
    ELSE InsertStable(SortFiles(SubSeq(files, 1, Len(files) - 1)), files[Len(files)])

\* hash.update(file.path); hash.update(file.hash) for each sorted file: the
\* bytes SHA-256 digests
RECURSIVE HashUpdates(_)
HashUpdates(sorted) ==
    IF sorted = <<>> THEN <<>>
    ELSE Head(sorted).path \o Head(sorted).hash \o HashUpdates(Tail(sorted))

\* computeSourceHash(files); the digest is kept as the bytes it is taken
\* from
HashInput(files) == HashUpdates(SortFiles(files))

\* ingest(source): doIngest validated the root, collectFiles starts
InitWalk ==
    /\ wdir \in Listings
    /\ wpos = 0
    /\ wfiles = <<>>
    /\ whash = <<>>
    /\ wprev = NoIngestion
    /\ wpc = "walk"
    /\ EngineIdle /\ PipelineIdle /\ LoaderIdle /\ ReportIdle /\ OrchestratorIdle
    /\ RerunIdle /\ AnalyzerIdle

\* one iteration of "for (const entry of entries)" in collectFiles; a throw
\* of the recursive call leaves through ingest's catch
CollectEntry ==
    /\ wpc = "walk" /\ wpos < Len(wdir)
    /\ LET entry == wdir[wpos + 1]
           sub == CollectSubdir(entry)
       IN IF ShouldExclude(entry.name, << entry.name >>)
          THEN wfiles' = wfiles /\ wpc' = wpc
          ELSE IF entry.kind = "dir"
          THEN IF sub.ok
               THEN wfiles' = wfiles \o sub.files /\ wpc' = wpc
               ELSE wfiles' = wfiles /\ wpc' = "failed"
          ELSE wfiles' = wfiles \o ProcessFile(entry, << entry.name >>) /\ wpc' = wpc
    /\ wpos' = wpos + 1
    /\ UNCHANGED <<wdir, whash, wprev>>
    /\ UNCHANGED <<engineVars, pipeVars, loaderVars, reportVars, orchVars, rerunVars, scanVars>>

\* buildContext: computeSourceHash(files) once collectFiles has returned
BuildContext ==
    /\ wpc = "walk" /\ wpos = Len(wdir)
    /\ whash' = HashInput(wfiles)
    /\ wpc' = "done"
    /\ UNCHANGED <<wdir, wpos, wfiles, wprev>>
    /\ UNCHANGED <<engineVars, pipeVars, loaderVars, reportVars, orchVars, rerunVars, scanVars>>

\* ingest(source) once more, on a directory that lists some way
IngestAgain ==
    /\ wpc = "done" /\ ~wprev.done
    /\ wprev' = [files |-> wfiles, hash |-> whash, done |-> TRUE]
    /\ wdir' \in Listings
    /\ wpos' = 0
    /\ wfiles' = <<>>
    /\ whash' = <<>>
    /\ wpc' = "walk"
    /\ UNCHANGED <<engineVars, pipeVars, loaderVars, reportVars, orchVars, rerunVars, scanVars>>

NextWalk ==
    \/ CollectEntry
    \/ BuildContext
    \/ IngestAgain

SpecWalk == InitWalk /\ [][NextWalk]_vars

\* ------------------------------------------------------------------------
\* Properties of the walk and the source hash
\* ------------------------------------------------------------------------
\* the (relative path, content hash) pairs of a file list
PairSet(files) == { << files[k].path, files[k].hash >> : k \in 1..Len(files) }

BothIngested == wpc = "done" /\ wprev.done

\* C21: two ingestions whose admitted files are the same (relative path,
\* content) pairs have the same source hash, whatever the order in which
\* the directories were listed.
C21_SamePairsSameHash ==
    (BothIngested /\ PairSet(wfiles) = PairSet(wprev.files)) => whash = wprev.hash

\* C30: two file sets that differ in their (relative path, content hash)
\* pairs never give the same bytes to the aggregate hash.
C30_HashInputUnambiguous ==
    (BothIngested /\ PairSet(wfiles) # PairSet(wprev.files)) => whash # wprev.hash

\* the files of the entries that can be read, in listing order
RECURSIVE ReadableFiles(_)
ReadableFiles(entries) ==
    IF entries = <<>> THEN <<>>
    ELSE LET entry == Head(entries)
         IN (IF ShouldExclude(entry.name, << entry.name >>) \/ ~entry.readable
             THEN <<>>
             ELSE IF entry.kind = "dir"
             THEN CollectChildren(entry.children, entry.name)
             ELSE ProcessFile(entry, << entry.name >>))
            \o ReadableFiles(Tail(entries))

\* C28: an entry that cannot be read, file or directory, is only left out:
\* the walk does not fail and ends with the files of the other entries.
C28_EntryErrorOnlyDropsEntry ==
    /\ wpc # "failed"
    /\ wpc = "done" => wfiles = ReadableFiles(wdir)

\* ------------------------------------------------------------------------
\* One file through the analyzers and the reporter: scanner/secret.ts
\* (SecretScanner), the EntrypointDetector, reporter/json.ts (maskReport)
\* ------------------------------------------------------------------------
\* the source path as the command line gives it: LocalIngestor.doIngest and
\* buildContext keep it as rootDir, executeScan passes it on as rootPath
SourceForms ==
    {
      \* a directory of the working directory
      << "p", "r", "o", "j" >>,
      \* the same behind ./
      << ".", "/", "p", "r", "o", "j" >>,
      \* with a trailing slash
      << "p", "r", "o", "j", "/" >>,
      \* absolute
      << "/", "w", "/", "p", "r", "o", "j" >>,
      \* absolute with a trailing slash
      << "/", "w", "/", "p", "r", "o", "j", "/" >>,
      \* the working directory itself
      << "." >>
    }

\* the file's path relative to the source root: relative(rootDir, absolutePath)
RelativePaths ==
    {
      \* a file of the root
      << "a" >>,
      \* a file of a subdirectory
      << "s", "/", "a" >>,
      \* a Dockerfile
      << "D", "o", "c", "k", "e", "r", "f", "i", "l", "e" >>
    }

\* what stands before, at and behind the interesting text of a file
Leads ==
    {
      \* nothing
      <<>>,
      \* an assignment
      << "k", "e", "y", "=" >>,
      \* key characters
      << "a", "b", "c", "d", "e", "f", "g", "h", "i", "j", "k", "l" >>
    }

Secrets ==
    {
      \* the access key of the AWS documentation
      << "A", "K", "I", "A", "I", "O", "S", "F", "O", "D", "N", "N", "7",
         "E", "X", "A", "M", "P", "L", "E" >>,
      \* a GitHub personal access token
      << "g", "h", "p", "_", "a", "1", "B", "2", "c", "3", "D", "4", "e",
         "5", "F", "6", "g", "7", "H", "8", "i", "9", "J", "0", "k", "1",
         "L", "2", "m", "3", "N", "4", "o", "5", "P", "6", "q", "7", "R",
         "8" >>,
      \* an OpenAI key
      << "s", "k", "-", "a", "b", "c", "d", "e", "f", "g", "h", "i", "j",
         "0", "1", "2", "3", "4", "5", "6", "7", "8", "9" >>,
      \* a URL with a password
      << "h", "t", "t", "p", "s", ":", "/", "/", "a", "d", "m", "i", "n",
         ":", "h", "u", "n", "t", "e", "r", "2", "@", "d", "b", ".", "l",
         "o", "c", "a", "l" >>,
      \* a private key block
      << "-", "-", "-", "-", "-", "B", "E", "G", "I", "N", " ", "E", "C",
         " ", "P", "R", "I", "V", "A", "T", "E", " ", "K", "E", "Y", "-",
         "-", "-", "-", "-", "\n", "M", "I", "I", "E", "v", "Q", "+", "/",
         "\n", "-", "-", "-", "-", "-", "E", "N", "D", " ", "E", "C", " ",
         "P", "R", "I", "V", "A", "T", "E", " ", "K", "E", "Y", "-", "-",
         "-", "-", "-" >>,
      \* a script piped into a shell
      << "c", "u", "r", "l", " ", "h", "t", "t", "p", "s", ":", "/", "/",
         "x", ".", "s", "h", " ", "|", " ", "s", "h" >>,
      \* a build step
      << "R", "U", "N", " ", "m", "a", "k", "e" >>,
      \* no secret
      << "h", "e", "l", "l", "o", " ", "w", "o", "r", "l", "d" >>
    }

Trails ==
    {
      \* nothing
      <<>>,
      \* a word
      << " ", "o", "k" >>,
      \* key characters
      << "m", "n", "o", "p", "q", "r", "s", "t", "u", "v", "w", "x", "y",
         "z" >>
    }

\* contents with a match of more than 100 characters
LongContents ==
    { <<"h", "t", "t", "p", "s", ":", "/", "/", "u", ":">> \o Repeat("!", 101)
        \o <<"@", "h">>,
      <<"c", "u", "r", "l", " ">> \o Repeat("a", 101) \o <<" ", "|", " ", "s", "h">>,
      <<"R", "U", "N", " ">> \o Repeat("a", 101) }

AnalyzedContents ==
    { l \o m \o t : l \in Leads, m \in Secrets, t \in Trails } \cup LongContents

\* p.split('/')
RECURSIVE SplitPath(_)
SplitPath(p) ==
    LET cut == IndexOfChar(p, 1, "/")
    IN IF cut > Len(p) THEN << p >>
       ELSE << SubSeq(p, 1, cut - 1) >> \o SplitPath(SubSeq(p, cut + 1, Len(p)))

\* path.normalize on the segments: "" and "." go, ".." takes the segment
\* before it
RECURSIVE ResolveSegments(_, _, _)
ResolveSegments(segs, done, absolute) ==
    IF segs = <<>> THEN done
    ELSE LET seg == Head(segs)
             up == <<".", ".">>
         IN IF seg = <<>> \/ seg = <<".">>
            THEN ResolveSegments(Tail(segs), done, absolute)
            ELSE IF seg = up /\ done # <<>> /\ done[Len(done)] # up
            THEN ResolveSegments(Tail(segs), SubSeq(done, 1, Len(done) - 1), absolute)
            ELSE IF seg = up /\ absolute
            THEN ResolveSegments(Tail(segs), done, absolute)
            ELSE ResolveSegments(Tail(segs), Append(done, seg), absolute)

\* path.join(dir, name), as collectFiles builds absolutePath
PathJoin(dir, name) ==
    LET absolute == dir # <<>> /\ dir[1] = "/"
        segs == ResolveSegments(SplitPath(dir \o <<"/">> \o name), <<>>, absolute)
    IN IF absolute THEN <<"/">> \o (IF segs = <<>> THEN <<>> ELSE JoinPath(segs))
       ELSE IF segs = <<>> THEN <<".">>
       ELSE JoinPath(segs)

\* s.replace(pattern, replacement) with a string pattern: the first occurrence
ReplaceFirst(s, pattern, replacement) ==
    LET at == { i \in 1..Len(s) : LitAt(s, i, pattern) }
    IN IF at = {} THEN s
       ELSE LET i == CHOOSE x \in at : \A y \in at : x <= y
            IN SubSeq(s, 1, i - 1) \o replacement
               \o SubSeq(s, i + Len(pattern), Len(s))

\* SecretScanner.scanContent: filePath.replace(rootPath + '/', '')
SecretRelativePath(filePath, rootPath) ==
    ReplaceFirst(filePath, rootPath \o <<"/">>, <<>>)

\* EntrypointDetector.getRelativePath
getRelativePath(file, rootPath) ==
    IF LitAt(file, 1, rootPath) THEN SubSeq(file, Len(rootPath) + 2, Len(file))
    ELSE file

\* relativePath.endsWith(config.file)
EndsWith(s, t) == Len(s) >= Len(t) /\ LitAt(s, Len(s) - Len(t) + 1, t)

\* content.match(pattern) of a Dockerfile pattern: the first match
DockerMatch(content, word) ==
    LET at == { i \in 1..Len(content) : MatchDockerLine(content, i, word).length > 0 }
    IN IF at = {} THEN [index |-> 0, length |-> 0, group |-> 0]
       ELSE LET i == CHOOSE x \in at : \A y \in at : x <= y
                m == MatchDockerLine(content, i, word)
            IN [index |-> i, length |-> m.length, group |-> m.group]

\* ENTRYPOINT_CONFIGS: the patterns of the Dockerfile; the files the other
\* configurations name (package.json, setup.py, Makefile, the shell scripts)
\* are not among RelativePaths
DockerPatterns ==
    << [name |-> "entrypoint_docker_run", word |-> <<"R", "U", "N">>],
       [name |-> "entrypoint_docker_entrypoint",
        word |-> <<"E", "N", "T", "R", "Y", "P", "O", "I", "N", "T">>] >>

\* EntrypointDetector.scanEntrypointConfigs: evidence is
\* match[1] || match[0].slice(0, 100), and a match has a group that is not empty
RECURSIVE scanEntrypointConfigs(_, _, _)
scanEntrypointConfigs(patterns, content, relativePath) ==
    IF patterns = <<>> \/ ~EndsWith(relativePath, <<"D", "o", "c", "k", "e", "r", "f", "i", "l", "e">>)
    THEN <<>>
    ELSE LET m == DockerMatch(content, Head(patterns).word)
             text == SubSeq(content, m.index, m.index + m.length - 1)
             group == SubSeq(content, m.group, m.index + m.length - 1)
         IN (IF m.length = 0 THEN <<>>
             ELSE << [rule |-> Head(patterns).name, file |-> relativePath,
                      evidence |-> IF group # <<>> THEN group
                                   ELSE SubSeq(text, 1, Min(Len(text), 100)),
                      matched |-> text] >>)
            \o scanEntrypointConfigs(Tail(patterns), content, relativePath)

\* DANGEROUS_PATTERNS, in order
DangerousPatterns == << "curl_pipe_bash", "wget_pipe_bash", "python_exec_url" >>

\* EntrypointDetector.scanDangerousPatterns: evidence is match[0]
RECURSIVE scanDangerousPatterns(_, _, _)
scanDangerousPatterns(names, content, relativePath) ==
    IF names = <<>> THEN <<>>
    ELSE LET ms == ExecAll(Head(names), content, 1)
         IN [k \in 1..Len(ms) |->
               [rule |-> Head(names), file |-> relativePath,
                evidence |-> ms[k].text, matched |-> ms[k].text]]
            \o scanDangerousPatterns(Tail(names), content, relativePath)

InitAnalyzer ==
    /\ sroot \in SourceForms
    /\ srel \in RelativePaths
    /\ scontent \in AnalyzedContents
    /\ sfindings = <<>>
    /\ sreported = <<>>
    /\ spc = "ingested"
    /\ EngineIdle /\ PipelineIdle /\ LoaderIdle /\ ReportIdle /\ OrchestratorIdle
    /\ RerunIdle /\ WalkIdle

\* SecretScanner.scan on the file collectFiles found at join(rootDir, name)
SecretScan ==
    /\ spc = "ingested"
    /\ sfindings' = scanContent(ScannerPatterns, scontent,
                                SecretRelativePath(PathJoin(sroot, srel), sroot))
    /\ spc' = "secret"
    /\ UNCHANGED <<sroot, srel, scontent, sreported>>
    /\ UNCHANGED <<engineVars, pipeVars, loaderVars, reportVars, orchVars, rerunVars, walkVars>>

\* EntrypointDetector.scan on the same file
EntrypointScan ==
    /\ spc = "secret"
    /\ LET relativePath == getRelativePath(PathJoin(sroot, srel), sroot)
       IN sfindings' = sfindings
              \o scanEntrypointConfigs(DockerPatterns, scontent, relativePath)
              \o scanDangerousPatterns(DangerousPatterns, scontent, relativePath)
    /\ spc' = "entrypoint"
    /\ UNCHANGED <<sroot, srel, scontent, sreported>>
    /\ UNCHANGED <<engineVars, pipeVars, loaderVars, reportVars, orchVars, rerunVars, walkVars>>

\* JsonReporter.generate with the default maskSecrets: maskReport
ReportFindings ==
    /\ spc = "entrypoint"
    /\ sreported' = maskReport([findings |->
           [k \in 1..Len(sfindings) |-> ReportFinding(sfindings[k])]]).findings
    /\ spc' = "reported"
    /\ UNCHANGED <<sroot, srel, scontent, sfindings>>
    /\ UNCHANGED <<engineVars, pipeVars, loaderVars, reportVars, orchVars, rerunVars, walkVars>>

NextAnalyzer ==
    \/ SecretScan
    \/ EntrypointScan
    \/ ReportFindings

SpecAnalyzer == InitAnalyzer /\ [][NextAnalyzer]_vars

\* the finding comes from the secret scanner, which masks its evidence
FromSecretScanner(f) == \E k \in 1..Len(ScannerPatterns) : f.rule = ScannerPatterns[k]

\* C22: masking twice gives what masking once gives: for the text a pattern
\* matched and for the whole content of the file; and the masking of the
\* reporter leaves the evidence the secret scanner has masked as it is, and
\* would leave what it wrote as it is.
C22_MaskIdempotent ==
    /\ maskEvidence(maskEvidence(scontent)) = maskEvidence(scontent)
    /\ \A k \in 1..Len(sfindings) :
          maskEvidence(maskEvidence(sfindings[k].matched))
              = maskEvidence(sfindings[k].matched)
    /\ \A k \in 1..Len(sreported) :
          /\ FromSecretScanner(sfindings[k])
                => sreported[k].evidence = sfindings[k].evidence
          /\ maskEvidence(sreported[k].evidence) = sreported[k].evidence

\* the reporter has been over an evidence the secret scanner had masked
C22_Witness ==
    /\ spc = "reported"
    /\ \E k \in 1..Len(sreported) :
          /\ FromSecretScanner(sfindings[k])
          /\ sfindings[k].evidence # sfindings[k].matched
          /\ sreported[k].evidence = sfindings[k].evidence

\* C26: the file of every finding is the path of the file relative to the
\* source root, in whatever form the source path was given.
C26_FindingFileRelative ==
    \A k \in 1..Len(sfindings) : sfindings[k].file = srel

\* C27: the evidence of every finding is at most 100 characters long.
C27_EvidenceAtMost100 ==
    \A k \in 1..Len(sfindings) : Len(sfindings[k].evidence) <= 100

====
